---- MODULE Spec2Model ----
(***************************************************************************)
(* A model of collate (src/collate.py): one call of collate(path, jobnum,  *)
(* name, destination, optthin, clob, high, noextinct, noangle, nowall,     *)
(* nophot, noscatt), stage by stage.                                       *)
(*                                                                         *)
(* The arguments and the files of the job directory are read where the     *)
(* code reads them: each stage draws, with \E, the value of the keyword it *)
(* tests first and the state of the file it globs.  The code is Python 2   *)
(* (EDGE.py uses print statements and cPickle), so len(dataarr)/axis_count *)
(* is the integer quotient.  The model files are numeric tables, so        *)
(* astropy reads every column as floats and astype(float) keeps each row.  *)
(*                                                                         *)
(* Further specifications over the same variables: SpecTwice (the same job *)
(* collated twice), SpecJobs (a batch of calls over one directory, then    *)
(* failCheck), SpecNum (numCheck), SpecPickle (SPPickle) and SpecObs       *)
(* (TTS_Obs.add_photometry); Spec also loads the record written with       *)
(* TTS_Model.dataInit and PTD_Model.dataInit of src/EDGE.py.               *)
(***************************************************************************)
EXTENDS Integers, Sequences, FiniteSets, TLC

\* Longest grid (number of data rows) of a component file.
MaxLen == 3

\* The values a 0/1 keyword is called with; 2 stands for any other value.
FlagVals == {0, 1, 2}

\* optthin: 0, 1, a truthy value that is not 1, and a falsy value that is
\* neither 0 nor 'False' (None).
OptVals == {"0", "1", "2", "None"}

Comp == {"phot", "wall", "angle", "scatt"}

CompOrder == <<"phot", "wall", "angle", "scatt">>

\* a slip of copying the angle block into the scattered-light block
AxisTagScattAsAngle(c) ==
    CASE c = "phot"  -> "PHOTAXIS"
      [] c = "wall"  -> "WALLAXIS"
      [] c = "angle" -> "ANGAXIS"
      [] c = "scatt" -> "ANGAXIS"

\* collate, lines 321, 348, 379, 410: the axis tag of each component
AxisTag(c) ==
    CASE c = "phot"  -> "PHOTAXIS"
      [] c = "wall"  -> "WALLAXIS"
      [] c = "angle" -> "ANGAXIS"
      [] c = "scatt" -> "SCATAXIS"

AxisTags == {"WLAXIS", "PHOTAXIS", "WALLAXIS", "ANGAXIS", "SCATAXIS", "EXTAXIS", "LFLAXIS"}

VARIABLES
    pc,          \* the stage collate is at
    optthin,     \* the optthin keyword
    jobf,        \* the menus of the job file read into jobf
    arg,         \* the value each no* keyword and clob was called with (-1: not
                 \* read yet)
    no,          \* the locals nophot, nowall, noangle, noscatt, noextinct
    found,       \* what the glob and getsize of each data file gave
    flen,        \* number of data rows of each component file read
    failed,      \* the local failed
    axis,        \* the dict axis
    axis_count,  \* the local axis_count
    dataarr,     \* the samples of the array dataarr, in C order
    shape,       \* dataarr.shape
    dparam,      \* the parsed parameters AMAXS and EPS
    hdu,         \* the header of the PrimaryHDU being built
    dest,        \* the file at destination+name+'_'+jobnum+'.fits'
    result,      \* "running", "written", "returned" or "raised"
    err,         \* the exception raised and the line that raised it
    ptd,         \* PTD_Model.dataInit: its outcome and self.data['iwall']
    run,         \* the number of calls of collate for the job so far
    first,       \* what the first call read and the header it wrote
    batch,       \* the keywords high and optthin of a batch of calls
    job,         \* each call of the batch: its stage, jobnum and what it read
    dir,         \* the files of the directory of the batch (path = destination)
    scan,        \* failCheck: its outcome and the list it returned
    nc,          \* numCheck: the numbers it was called with and its results
    pk,          \* SPPickle: the listing, count, outname and what it wrote
    tts,         \* TTS_Model.dataInit: its outcome and the keys of self.data
    obs          \* TTS_Obs: photometry and ulim, and the call in progress

\* one call of collate for one job
callvars == <<pc, optthin, jobf, arg, no, found, flen, failed, axis, axis_count,
              dataarr, shape, dparam, hdu, dest, result, err>>

\* the calls made for the job
calls == <<run, first>>

\* the batch of calls over a directory
batchvars == <<batch, job, dir, scan>>

\* the functions and objects of EDGE.py apart from PTD_Model
edgevars == <<nc, pk, tts, obs>>

vars == <<callvars, ptd, calls, batchvars, edgevars>>

\* what no step of the one call reads or writes
others == <<ptd, calls, batchvars, edgevars>>

nophot    == no["phot"]
nowall    == no["wall"]
noangle   == no["angle"]
noscatt   == no["scatt"]
noextinct == no["extinct"]

----------------------------------------------------------------------------
\* Samples.  A sample is named by the file, the column and the row it was
\* read from; att lists the extinction samples e it was multiplied by
\* exp(-e) with.

Sample(c, col, k) == [f |-> c, col |-> col, k |-> k, att |-> <<>>]

Column(c, col, n) == [k \in 1..n |-> Sample(c, col, k)]

\* x * exp(-e)
Attenuate(x, e) == [x EXCEPT !.att = Append(@, <<e.f, e.col, e.k>>)]

\* dataarr[i, :] of a 2-D array
Row(arr, shp, i) == SubSeq(arr, i * shp[2] + 1, (i + 1) * shp[2])

\* a slip that attenuates the extinction row j along with row i
MulRowAlsoExt(arr, shp, i, j) ==
    [p \in 1..Len(arr) |->
        IF (p - 1) \div shp[2] \in {i, j}
        THEN Attenuate(arr[p], arr[j * shp[2] + ((p - 1) % shp[2]) + 1])
        ELSE arr[p]]

\* dataarr[i, :] *= np.exp((-1) * dataarr[j, :])
MulRow(arr, shp, i, j) ==
    [p \in 1..Len(arr) |->
        IF (p - 1) \div shp[2] = i
        THEN Attenuate(arr[p], arr[j * shp[2] + ((p - 1) % shp[2]) + 1])
        ELSE arr[p]]

NoFile  == [kind |-> "absent"]
OldFile == [kind |-> "old"]

----------------------------------------------------------------------------
Init ==
    /\ pc = "call"
    /\ optthin = "0"
    /\ jobf = [kind |-> "unread"]
    /\ arg = [c \in Comp \cup {"extinct", "clob"} |-> -1]
    /\ no = [c \in Comp \cup {"extinct"} |-> -1]
    /\ found = [c \in Comp \cup {"fort16", "rin"} |-> "none"]
    /\ flen = [c \in Comp \cup {"fort16"} |-> 0]
    /\ failed = FALSE
    /\ axis = << >>
    /\ axis_count = 0
    /\ dataarr = << >>
    /\ shape = <<0>>
    /\ dparam = [AMAXS |-> 0, EPS |-> 0]
    /\ hdu = << >>
    /\ dest \in {NoFile, OldFile}
    /\ result = "running"
    /\ err = "none"
    /\ ptd = [state |-> "idle"]
    /\ run = 1
    /\ first = [kind |-> "none"]
    /\ batch = [state |-> "idle"]
    /\ job = << >>
    /\ dir = {}
    /\ scan = [state |-> "idle"]
    /\ nc = [state |-> "idle"]
    /\ pk = [state |-> "idle"]
    /\ tts = [state |-> "idle"]
    /\ obs = [state |-> "idle"]

Raise(e) ==
    /\ pc' = "done"
    /\ result' = "raised"
    /\ err' = e

\* a slip that lets the IOError of open() through
ReturnAsRaise == Raise("IOError:open")

\* collate, lines 128-129, 225-226, 236-237: return
Return ==
    /\ pc' = "done"
    /\ result' = "returned"
    /\ err' = "none"

Goto(stage) ==
    /\ pc' = stage
    /\ UNCHANGED <<result, err>>

\* collate, lines 115-120 and 216-217, 481-483: the branch on optthin
Call ==
    /\ pc = "call"
    /\ \E o \in OptVals :
        /\ optthin' = o
        /\ IF o \in {"1", "2"} THEN Goto("o_open")
           ELSE IF o = "0" THEN Goto("open")
           ELSE Raise("IOError:483")
    /\ UNCHANGED <<arg, no, found, flen, failed, axis, axis_count, dataarr,
                   shape, dparam, hdu, dest>>
    /\ UNCHANGED <<jobf, others>>

----------------------------------------------------------------------------
\* The job file.  A menu is the list of the occurrences of "AMAXS='"
\* (or "EPS='") in the file, in order; mark is the first character of the
\* line that follows the occurrence ("#": commented out, "s": a set line,
\* "x": anything else) and val the number between the quotes.

num_amax == 10

num_eps == 7

mm_amax == 1000

Menu(n, active, other) ==
    [i \in 1..n |-> [mark |-> IF i \in active THEN "s"
                              ELSE IF i \in other THEN "x" ELSE "#",
                     val |-> i]]

\* The job files of the runs: the menus and the state of the other markers.
AmaxsMenus ==
    {Menu(n, a, o) : n \in {num_amax - 1, num_amax}, a \in {{}, {2}}, o \in {{}, {num_amax}}}

EpsMenus ==
    {Menu(n, a, o) : n \in {num_eps - 2, num_eps}, a \in {{}, {3}, {3, 5}}, o \in {{}, {2}}}

\* collate, lines 248-256: the loop over the AMAXS menu, from pass num on,
\* with dparam[ind] = d
RECURSIVE AmaxsFrom(_, _, _)
AmaxsFrom(menu, num, d) ==
    IF num = num_amax THEN [err |-> "none", val |-> d]
    ELSE IF num + 1 > Len(menu) THEN [err |-> "IndexError:251", val |-> d]
    ELSE IF menu[num + 1].mark = "#" THEN AmaxsFrom(menu, num + 1, d)
    ELSE IF menu[num + 1].mark = "s" THEN AmaxsFrom(menu, num + 1, menu[num + 1].val)
    ELSE IF d = 0 /\ num = num_amax - 1 THEN AmaxsFrom(menu, num + 1, mm_amax)
    ELSE AmaxsFrom(menu, num + 1, d)

\* collate, lines 258-265: the loop over the EPS menu
RECURSIVE EpsFrom(_, _, _)
EpsFrom(menu, num, d) ==
    IF num = num_eps THEN [err |-> "none", val |-> d]
    ELSE IF num + 1 > Len(menu) THEN [err |-> "IndexError:260", val |-> d]
    ELSE IF menu[num + 1].mark = "#" THEN EpsFrom(menu, num + 1, d)
    ELSE IF menu[num + 1].mark = "s" THEN EpsFrom(menu, num + 1, menu[num + 1].val)
    ELSE [err |-> "IOError:265", val |-> d]

\* collate, lines 219-229: open the job file
OpenJob ==
    /\ pc = "open"
    /\ \E jobfile \in {"missing", "present"} :
        /\ jobf' = [kind |-> jobfile]
        /\ IF jobfile = "missing" THEN Return ELSE Goto("label")
    /\ UNCHANGED <<optthin, arg, no, found, flen, failed, axis, axis_count,
                   dataarr, shape, dparam, hdu, dest>>
    /\ UNCHANGED others

\* collate, lines 232-237: labelend against name_jobnum
CheckLabel ==
    /\ pc = "label"
    /\ \E labelend \in {"nomarker", "other", "same"} :
        /\ jobf' = [kind |-> "label", labelend |-> labelend]
        /\ IF labelend = "nomarker" THEN Raise("IndexError:233")
           ELSE IF labelend = "other" THEN Return
           ELSE Goto("params")
    /\ UNCHANGED <<optthin, arg, no, found, flen, failed, axis, axis_count,
                   dataarr, shape, dparam, hdu, dest>>
    /\ UNCHANGED others

\* collate, lines 239-307: parse the parameters in the order of sparam
\* (MSTAR..RDISK, AMAXS, EPS, WLCUT_ANGLE..TSHOCK), then set up dataarr,
\* axis, axis_count and failed
ParseParams ==
    /\ pc = "params"
    /\ \E head \in {"ok", "nomarker"}, amenu \in AmaxsMenus, emenu \in EpsMenus,
          tail \in {"ok", "nomarker", "nodot"} :
        LET a == AmaxsFrom(amenu, 0, 0)
            e == EpsFrom(emenu, 0, 0)
        IN  /\ jobf' = [kind |-> "disk", head |-> head, amaxs |-> amenu,
                         eps |-> emenu, tail |-> tail]
            /\ IF head = "nomarker" THEN Raise("IndexError:280") /\ UNCHANGED dparam
               ELSE IF a.err # "none" THEN Raise(a.err) /\ UNCHANGED dparam
               ELSE IF e.err # "none" THEN Raise(e.err) /\ UNCHANGED dparam
               ELSE IF tail = "nomarker" THEN Raise("IndexError:280") /\ UNCHANGED dparam
               ELSE IF tail = "nodot" THEN Raise("ValueError:271") /\ UNCHANGED dparam
               ELSE /\ dparam' = [AMAXS |-> a.val, EPS |-> e.val]
                    /\ Goto("phot")
    /\ IF pc' = "phot"
       THEN /\ dataarr' = << >>
            /\ shape' = <<0>>
            /\ axis' = ("WLAXIS" :> 0)
            /\ axis_count' = 1
            /\ failed' = FALSE
       ELSE UNCHANGED <<dataarr, shape, axis, axis_count, failed>>
    /\ UNCHANGED <<optthin, arg, no, found, flen, hdu, dest>>
    /\ UNCHANGED others

----------------------------------------------------------------------------
\* The component files, in the order photosphere, wall, angle (disk),
\* scattered light.

\* collate, lines 350, 381, 412: whether the block of component c
\* concatenates its wavelength column (line 322 does so always)
NeedsWl(c) ==
    CASE c = "phot"  -> TRUE
      [] c = "wall"  -> nophot # 0
      [] c = "angle" -> nophot # 0 /\ nowall # 0
      [] c = "scatt" -> nophot # 0 /\ nowall # 0 /\ noangle # 0

\* collate, lines 331, 362, 393, 424: a keyword that is neither 0 nor 1
FlagError(c) ==
    CASE c = "phot"  -> "IOError:331"
      [] c = "wall"  -> "IOError:362"
      [] c = "angle" -> "IOError:393"
      [] c = "scatt" -> "IOError:424"

\* a slip that leaves the IndexError of glob(...)[0] uncaught
OnMissingUncaught(c, nxt) ==
    /\ Raise("IndexError:glob")
    /\ UNCHANGED <<no, failed, axis, axis_count, dataarr>>

\* collate, lines 313-317 (340-344, 371-375, 402-406): glob found no file
OnMissing(c, nxt) ==
    /\ no' = [no EXCEPT ![c] = 1]
    /\ failed' = TRUE
    /\ Goto(nxt)
    /\ UNCHANGED <<axis, axis_count, dataarr>>

\* a slip that skips the size test and reads the empty file as a table
\* without rows
OnEmptyAsFound(c, nxt) ==
    /\ axis' = (AxisTag(c) :> axis_count) @@ axis
    /\ axis_count' = axis_count + 1
    /\ no' = [no EXCEPT ![c] = 0]
    /\ Goto(nxt)
    /\ UNCHANGED <<failed, dataarr>>

\* collate, lines 325-328 (356-359, 387-390, 418-421): the file has size 0
OnEmpty(c, nxt) ==
    /\ no' = [no EXCEPT ![c] = 1]
    /\ failed' = TRUE
    /\ Goto(nxt)
    /\ UNCHANGED <<axis, axis_count, dataarr>>

\* a slip that clears failed when a file is read
OnFoundResets(c, n, nxt) ==
    /\ axis' = (AxisTag(c) :> axis_count) @@ axis
    /\ dataarr' = dataarr \o (IF NeedsWl(c) THEN Column(c, "wl", n) ELSE << >>)
                          \o Column(c, "flux", n)
    /\ axis_count' = axis_count + 1
    /\ no' = [no EXCEPT ![c] = 0]
    /\ failed' = FALSE
    /\ Goto(nxt)

\* collate, lines 319-324 (346-354, 377-385, 408-416): read the file of n
\* rows and concatenate its columns
OnFound(c, n, nxt) ==
    /\ axis' = (AxisTag(c) :> axis_count) @@ axis
    /\ dataarr' = dataarr \o (IF NeedsWl(c) THEN Column(c, "wl", n) ELSE << >>)
                          \o Column(c, "flux", n)
    /\ axis_count' = axis_count + 1
    /\ no' = [no EXCEPT ![c] = 0]
    /\ Goto(nxt)
    /\ UNCHANGED failed

\* collate, lines 309-333 (336-365, 367-396, 398-424): the block of one
\* component
Discover(c, nxt) ==
    /\ \E flag \in FlagVals, st \in {"missing", "empty", "found"}, n \in 1..MaxLen :
        /\ arg' = [arg EXCEPT ![c] = flag]
        /\ IF flag = 0
           THEN /\ found' = [found EXCEPT ![c] = st]
                /\ flen' = [flen EXCEPT ![c] = IF st = "found" THEN n ELSE 0]
                /\ CASE st = "missing" -> OnMissing(c, nxt)
                     [] st = "empty"   -> OnEmpty(c, nxt)
                     [] st = "found"   -> OnFound(c, n, nxt)
           ELSE IF flag # 1
           THEN /\ Raise(FlagError(c))
                /\ UNCHANGED <<no, found, flen, failed, axis, axis_count, dataarr>>
           ELSE /\ no' = [no EXCEPT ![c] = 1]
                /\ Goto(nxt)
                /\ UNCHANGED <<found, flen, failed, axis, axis_count, dataarr>>
    /\ UNCHANGED <<optthin, shape, dparam, hdu, dest>>
    /\ UNCHANGED <<jobf, others>>

\* collate, lines 309-333
Phot ==
    /\ pc = "phot"
    /\ Discover("phot", "wall")

\* collate, lines 336-365
Wall ==
    /\ pc = "wall"
    /\ Discover("wall", "angle")

\* collate, lines 367-396
Angle ==
    /\ pc = "angle"
    /\ Discover("angle", "scatt")

\* collate, lines 398-424
Scatt ==
    /\ pc = "scatt"
    /\ Discover("scatt", "extinct")

\* a slip that turns extinction off without setting failed
NoAngleForExtinctSilent ==
    /\ no' = [no EXCEPT !["extinct"] = 1]
    /\ UNCHANGED <<failed, axis, axis_count, dataarr>>

\* collate, lines 427-430: extinction asked for without the angle file
NoAngleForExtinct ==
    /\ failed' = TRUE
    /\ no' = [no EXCEPT !["extinct"] = 1]
    /\ UNCHANGED <<axis, axis_count, dataarr>>

\* a slip that gives the extinction column the index of the wavelength
AppendExtinctAtZero ==
    /\ dataarr' = dataarr \o Column("angle", "ext", flen["angle"])
    /\ axis' = ("EXTAXIS" :> 0) @@ axis
    /\ axis_count' = axis_count + 1
    /\ no' = [no EXCEPT !["extinct"] = 0]
    /\ UNCHANGED failed

\* collate, lines 431-434: append the extinction column of the angle file
AppendExtinct ==
    /\ dataarr' = dataarr \o Column("angle", "ext", flen["angle"])
    /\ axis' = ("EXTAXIS" :> axis_count) @@ axis
    /\ axis_count' = axis_count + 1
    /\ no' = [no EXCEPT !["extinct"] = 0]
    /\ UNCHANGED failed

\* collate, lines 426-437
Extinct ==
    /\ pc = "extinct"
    /\ \E flag \in FlagVals :
        /\ arg' = [arg EXCEPT !["extinct"] = flag]
        /\ IF flag = 0
           THEN /\ IF noangle # 0 THEN NoAngleForExtinct ELSE AppendExtinct
                /\ Goto("reshape")
           ELSE IF flag # 1
           THEN /\ Raise("IOError:437")
                /\ UNCHANGED <<no, failed, axis, axis_count, dataarr>>
           ELSE /\ no' = [no EXCEPT !["extinct"] = 1]
                /\ Goto("reshape")
                /\ UNCHANGED <<failed, axis, axis_count, dataarr>>
    /\ UNCHANGED <<optthin, found, flen, shape, dparam, hdu, dest>>
    /\ UNCHANGED <<jobf, others>>

\* the column-major shape of the earlier collate
NewShapeColumnMajor(len, rows) == <<len \div rows, rows>>

\* collate, line 441: the shape np.reshape is asked for
NewShape(len, rows) == <<rows, len \div rows>>

\* a slip that refuses to reshape an array without samples
ReshapableNonEmpty(len, shp) == len > 0 /\ shp[1] * shp[2] = len

\* np.reshape accepts a shape that holds exactly the samples of the array
Reshapable(len, shp) == shp[1] * shp[2] = len

\* collate, lines 440-447: reshape, then astype(float) row by row, which
\* keeps the rows of a float array
Reshape ==
    /\ pc = "reshape"
    /\ LET shp == NewShape(Len(dataarr), axis_count)
       IN  IF Reshapable(Len(dataarr), shp)
           THEN shape' = shp /\ Goto("correct")
           ELSE Raise("ValueError:441") /\ UNCHANGED shape
    /\ UNCHANGED <<optthin, arg, no, found, flen, failed, axis, axis_count,
                   dataarr, dparam, hdu, dest>>
    /\ UNCHANGED <<jobf, others>>

\* a slip that runs the correction of the photosphere and wall rows twice
CorrectedTwice(arr, shp) ==
    LET once(a) ==
            LET a1 == IF nophot = 0
                      THEN MulRow(a, shp, axis["PHOTAXIS"], axis["EXTAXIS"]) ELSE a
            IN  IF nowall = 0
                THEN MulRow(a1, shp, axis["WALLAXIS"], axis["EXTAXIS"]) ELSE a1
    IN  once(once(arr))

\* collate, lines 449-453: the array after the self-extinction correction
Corrected(arr, shp) ==
    LET a1 == IF nophot = 0
              THEN MulRow(arr, shp, axis["PHOTAXIS"], axis["EXTAXIS"]) ELSE arr
    IN  IF nowall = 0
        THEN MulRow(a1, shp, axis["WALLAXIS"], axis["EXTAXIS"]) ELSE a1

Correct ==
    /\ pc = "correct"
    /\ dataarr' = IF noextinct = 0 THEN Corrected(dataarr, shape) ELSE dataarr
    /\ Goto("header")
    /\ UNCHANGED <<optthin, arg, no, found, flen, failed, axis, axis_count,
                   shape, dparam, hdu, dest>>
    /\ UNCHANGED <<jobf, others>>

\* collate, lines 456-462: the header with the parameters and RIN
MakeHeader ==
    /\ pc = "header"
    /\ \E rin \in {"missing", "empty", "found"} :
        /\ found' = [found EXCEPT !["rin"] = rin]
        /\ CASE rin = "missing" -> Raise("IndexError:462") /\ UNCHANGED hdu
             [] rin = "empty"   -> Raise("TypeError:462") /\ UNCHANGED hdu
             [] rin = "found"   ->
                   /\ hdu' = ("AMAXS" :> dparam.AMAXS) @@ ("EPS" :> dparam.EPS)
                             @@ ("RIN" :> 1)
                   /\ Goto("write")
    /\ UNCHANGED <<optthin, arg, no, flen, failed, axis, axis_count,
                   dataarr, shape, dparam, dest>>
    /\ UNCHANGED <<jobf, others>>

\* a slip that also marks the record when the caller skipped the angle file
TagsFailedWhenSkipped(h) ==
    LET a == axis @@ h
        n == IF noextinct = 1 THEN ("NOEXT" :> 1) @@ a ELSE a
    IN  IF failed \/ arg["angle"] = 1 THEN ("FAILED" :> 1) @@ n ELSE n

\* collate, lines 464-475: the axis tags, NOEXT and FAILED
Tags(h) ==
    LET a == axis @@ h
        n == IF noextinct = 1 THEN ("NOEXT" :> 1) @@ a ELSE a
    IN  IF failed THEN ("FAILED" :> 1) @@ n ELSE n

\* a slip that writes over the file whatever clobber is
WriteToAlways(h, clob) ==
    /\ dest' = [kind |-> "rec", header |-> h, data |-> dataarr, shape |-> shape]
    /\ pc' = "done"
    /\ result' = "written"
    /\ err' = "none"

\* a slip that truncates the file before it tests clobber
WriteToPartial(h, clob) ==
    IF dest.kind # "absent" /\ clob = 0
    THEN /\ Raise("IOError:writeto")
         /\ dest' = [kind |-> "rec", header |-> << >>, data |-> << >>,
                     shape |-> <<0>>]
    ELSE /\ dest' = [kind |-> "rec", header |-> h, data |-> dataarr, shape |-> shape]
         /\ pc' = "done"
         /\ result' = "written"
         /\ err' = "none"

\* hdu.writeto(file, clobber = clob): astropy tests clobber when the file
\* exists
WriteTo(h, clob) ==
    IF dest.kind # "absent" /\ clob = 0
    THEN /\ Raise("IOError:writeto")
         /\ UNCHANGED dest
    ELSE /\ dest' = [kind |-> "rec", header |-> h, data |-> dataarr, shape |-> shape]
         /\ pc' = "done"
         /\ result' = "written"
         /\ err' = "none"

\* the value of clob the call was made with, known once writeto found a file
ClobRead(clob) == [arg EXCEPT !["clob"] = IF dest.kind # "absent" THEN clob ELSE @]

\* collate, lines 464-478
Write ==
    /\ pc = "write"
    /\ hdu' = Tags(hdu)
    /\ \E clob \in {0, 1} : WriteTo(hdu', clob) /\ arg' = ClobRead(clob)
    /\ UNCHANGED <<optthin, no, found, flen, failed, axis, axis_count,
                   dataarr, shape, dparam>>
    /\ UNCHANGED <<jobf, others>>

----------------------------------------------------------------------------
\* The optically thin branch.

\* The occurrences of "lamax='amax" in the job_optthin file: mark is the
\* first character of the line the occurrence is on, mm whether the text
\* up to the quote is 1mm; tail tells how the text after the last
\* occurrence ends ("newline": with an empty last line, "s": with a line
\* that starts with s, "x": otherwise).
ThinMenu(n, active, mm) ==
    [i \in 1..n |-> [mark |-> IF i \in active THEN "s" ELSE "#",
                     val |-> IF i \in mm THEN mm_amax ELSE i]]

ThinMenus ==
    {ThinMenu(n, a, m) : n \in {num_amax - 1, num_amax},
                         a \in {{}, {2}, {2, num_amax - 1}}, m \in {{}, {num_amax - 1}}}

\* collate, lines 182-188: the loop over the parts of
\* jobf.split("lamax='amax"), from pass num on, with the header h
RECURSIVE ThinAmaxsFrom(_, _, _, _)
ThinAmaxsFrom(menu, tail, num, h) ==
    IF num = num_amax THEN [err |-> "none", hdr |-> h]
    ELSE IF num > Len(menu) THEN [err |-> "IndexError:183", hdr |-> h]
    ELSE IF num = Len(menu)
    THEN IF tail = "newline" THEN [err |-> "IndexError:183", hdr |-> h]
         ELSE IF tail = "s" THEN [err |-> "IndexError:184", hdr |-> h]
         ELSE ThinAmaxsFrom(menu, tail, num + 1, h)
    ELSE IF menu[num + 1].mark = "s"
    THEN ThinAmaxsFrom(menu, tail, num + 1, ("AMAXS" :> menu[num + 1].val) @@ h)
    ELSE ThinAmaxsFrom(menu, tail, num + 1, h)

\* collate, lines 123-132
ThinOpenJob ==
    /\ pc = "o_open"
    /\ \E jobfile \in {"missing", "present"} :
        /\ jobf' = [kind |-> jobfile]
        /\ IF jobfile = "missing" THEN Return ELSE Goto("o_data")
    /\ UNCHANGED <<optthin, arg, no, found, flen, failed, axis, axis_count,
                   dataarr, shape, dparam, hdu, dest>>
    /\ UNCHANGED others

\* collate, lines 141-175: the fort16 file
ThinData ==
    /\ pc = "o_data"
    /\ \E st \in {"missing", "empty", "found"}, n \in 1..MaxLen :
        /\ found' = [found EXCEPT !["fort16"] = st]
        /\ flen' = [flen EXCEPT !["fort16"] = IF st = "found" THEN n ELSE 0]
        /\ failed' = (st # "found")
        /\ IF st = "found"
           THEN /\ dataarr' = Column("fort16", "wl", n) \o Column("fort16", "flux", n)
                /\ shape' = <<2, n>>
           ELSE /\ dataarr' = << >>
                /\ shape' = <<0>>
    /\ Goto("o_params")
    /\ UNCHANGED <<optthin, arg, no, axis, axis_count, dparam, hdu, dest>>
    /\ UNCHANGED <<jobf, others>>

\* collate, lines 178-200: the parameters, in the order of sdparam
\* (TSTAR..FRACAMC, then AMAXS)
ThinParams ==
    /\ pc = "o_params"
    /\ \E head \in {"ok", "nomarker"}, menu \in ThinMenus, tail \in {"newline", "s", "x"} :
        LET a == ThinAmaxsFrom(menu, tail, 0, << >>)
        IN  /\ jobf' = [kind |-> "thin", head |-> head, amaxs |-> menu, tail |-> tail]
            /\ IF head = "nomarker" THEN Raise("IndexError:200") /\ UNCHANGED hdu
               ELSE IF a.err # "none" THEN Raise(a.err) /\ UNCHANGED hdu
               ELSE hdu' = a.hdr /\ Goto("o_write")
    /\ UNCHANGED <<optthin, arg, no, found, flen, failed, axis, axis_count,
                   dataarr, shape, dparam, dest>>
    /\ UNCHANGED others

\* a slip that marks an optically thin record written over a record
ThinTagsOverRecord(h) ==
    LET a == ("OPTTHIN" :> 1) @@ ("WLAXIS" :> 0) @@ ("LFLAXIS" :> 1) @@ h
    IN  IF failed \/ dest.kind = "rec" THEN ("FAILED" :> 1) @@ a ELSE a

\* collate, lines 202-209: the tags of an optically thin record
ThinTags(h) ==
    LET a == ("OPTTHIN" :> 1) @@ ("WLAXIS" :> 0) @@ ("LFLAXIS" :> 1) @@ h
    IN  IF failed THEN ("FAILED" :> 1) @@ a ELSE a

\* collate, lines 202-214
ThinWrite ==
    /\ pc = "o_write"
    /\ hdu' = ThinTags(hdu)
    /\ \E clob \in {0, 1} : WriteTo(hdu', clob) /\ arg' = ClobRead(clob)
    /\ UNCHANGED <<optthin, no, found, flen, failed, axis, axis_count,
                   dataarr, shape, dparam>>
    /\ UNCHANGED <<jobf, others>>

----------------------------------------------------------------------------
\* PTD_Model.dataInit (src/EDGE.py) called with jobw.  The file the run of
\* collate left at its output path is the inner-wall record; the record of
\* the disk job is one of DiskJobRecords.  Every record collate writes has
\* the tags ALTINH and TEMP (lines 458-459), which are not modelled.

\* fits.open(f)[0].header; a file that predates the tags has none of them
HeaderOf(f) == IF f.kind = "rec" THEN f.header ELSE << >>

\* The record collate writes for a disk job called with nophot=1, nowall=1,
\* noscatt=1, noextinct=0 and an angle file of m rows
DiskRecordExt(m) ==
    [kind   |-> "rec",
     header |-> ("WLAXIS" :> 0) @@ ("ANGAXIS" :> 1) @@ ("EXTAXIS" :> 2),
     data   |-> Column("angle", "wl", m) \o Column("angle", "flux", m)
                    \o Column("angle", "ext", m),
     shape  |-> <<3, m>>]

\* the same job collated with noextinct=1
DiskRecordNoExt(m) ==
    [kind   |-> "rec",
     header |-> ("WLAXIS" :> 0) @@ ("ANGAXIS" :> 1) @@ ("NOEXT" :> 1),
     data   |-> Column("angle", "wl", m) \o Column("angle", "flux", m),
     shape  |-> <<2, m>>]

\* a record of the earlier collate, without EXTAXIS and NOEXT: one row of
\* wl, phot, wall, disk
DiskRecordOld ==
    [kind   |-> "rec",
     header |-> ("RIN" :> 1),
     data   |-> <<Sample("angle", "wl", 1), Sample("phot", "flux", 1),
                  Sample("wall", "flux", 1), Sample("angle", "flux", 1)>>,
     shape  |-> <<1, 4>>]

DiskJobRecords ==
    {DiskRecordExt(m) : m \in 1..MaxLen} \cup {DiskRecordNoExt(1), DiskRecordOld}

\* a slip that takes any record for an inner wall
IsInnerWallAny(h) == TRUE

\* EDGE.py, line 1380: the inner-wall record must carry NOEXT
IsInnerWall(h) == "NOEXT" \in DOMAIN h

\* numpy broadcasts two rows of the same length, or one of them of length 1
Broadcastable(a, e) == Len(a) = Len(e) \/ Len(a) = 1 \/ Len(e) = 1

\* a * np.exp(-1 * e) of two rows
MulExp(a, e) ==
    [k \in 1..(IF Len(a) = 1 THEN Len(e) ELSE Len(a)) |->
        Attenuate(a[IF Len(a) = 1 THEN 1 ELSE k], e[IF Len(e) = 1 THEN 1 ELSE k])]

PtdRaise(e) == [state |-> "raised", err |-> e, iwall |-> << >>]

PtdLoaded(row) == [state |-> "loaded", err |-> "none", iwall |-> row]

\* EDGE.py, lines 1367-1405 and 1428-1429: self.data['iwall']
DataInit ==
    /\ pc = "done"
    /\ ptd.state = "idle"
    /\ tts.state = "idle"
    /\ \E disk \in DiskJobRecords :
        LET wallh == HeaderOf(dest)
            new   == "EXTAXIS" \in DOMAIN disk.header \/ "NOEXT" \in DOMAIN disk.header
        IN  ptd' =
                IF dest.kind = "absent" THEN PtdRaise("IOError:1377")
                ELSE IF ~IsInnerWall(wallh) THEN PtdRaise("IOError:1381")
                ELSE IF "WALLAXIS" \notin DOMAIN wallh
                THEN PtdRaise(IF new THEN "KeyError:1401" ELSE "KeyError:1429")
                ELSE IF ~new
                THEN PtdLoaded(Row(dest.data, dest.shape, wallh["WALLAXIS"]))
                ELSE IF "EXTAXIS" \notin DOMAIN disk.header
                THEN PtdRaise("KeyError:1401")
                ELSE LET a == Row(dest.data, dest.shape, wallh["WALLAXIS"])
                         e == Row(disk.data, disk.shape, disk.header["EXTAXIS"])
                     IN  IF Broadcastable(a, e) THEN PtdLoaded(MulExp(a, e))
                         ELSE PtdRaise("ValueError:1401")
    /\ UNCHANGED <<callvars, calls, batchvars, edgevars>>

\* TTS_Model.dataInit (src/EDGE.py, lines 1128-1175) on the file the run of
\* collate left at its output path.

\* the keys of self.data and the axis tag each is loaded by
TtsKeys ==
    ("phot" :> "PHOTAXIS") @@ ("iwall" :> "WALLAXIS") @@ ("disk" :> "ANGAXIS")
        @@ ("scatt" :> "SCATAXIS")

\* a slip that takes a record for new only when it has EXTAXIS
IsNewExtOnly(h) == "EXTAXIS" \in DOMAIN h

\* lines 1142-1145: 'EXTAXIS' in header.keys() or 'NOEXT' in header.keys()
IsNew(h) == "EXTAXIS" \in DOMAIN h \/ "NOEXT" \in DOMAIN h

TtsRaise(e) ==
    [state |-> "raised", err |-> e, new |-> -1, data |-> << >>, extcorr |-> << >>]

\* lines 1147-1169: the rows loaded by the tags that are in the header
TtsLoadNew(f) ==
    LET h == f.header
        keys == {k \in DOMAIN TtsKeys : TtsKeys[k] \in DOMAIN h}
    IN  [state |-> "loaded", err |-> "none", new |-> 1,
         data |-> [k \in keys \cup {"wl"} |->
                      Row(f.data, f.shape,
                          h[IF k = "wl" THEN "WLAXIS" ELSE TtsKeys[k]])],
         extcorr |-> IF "EXTAXIS" \in DOMAIN h
                     THEN Row(f.data, f.shape, h["EXTAXIS"]) ELSE << >>]

\* lines 1170-1172: data[:,0], data[:,1], data[:,2], data[:,3] of a record
\* of the earlier collate, whose grid is longer than any of the model
TtsLoadOld ==
    [state |-> "loaded", err |-> "none", new |-> 0,
     data |-> [k \in {"wl", "phot", "iwall", "disk"} |-> <<"column", k>>],
     extcorr |-> << >>]

TtsDataInit ==
    /\ pc = "done"
    /\ tts.state = "idle"
    /\ ptd.state = "idle"
    /\ tts' = IF dest.kind = "absent" THEN TtsRaise("IOError:1139")
              ELSE IF dest.kind = "old" THEN TtsLoadOld
              ELSE IF IsNew(dest.header)
              THEN IF "WLAXIS" \notin DOMAIN dest.header
                   THEN TtsRaise("KeyError:1150")
                   ELSE TtsLoadNew(dest)
              ELSE IF Len(dest.shape) = 2 /\ dest.shape[2] >= 4 THEN TtsLoadOld
              ELSE TtsRaise("IndexError:1171")
    /\ UNCHANGED <<callvars, ptd, calls, batchvars, nc, pk, obs>>

----------------------------------------------------------------------------
Next ==
    \/ Call
    \/ OpenJob
    \/ CheckLabel
    \/ ParseParams
    \/ Phot
    \/ Wall
    \/ Angle
    \/ Scatt
    \/ Extinct
    \/ Reshape
    \/ Correct
    \/ MakeHeader
    \/ Write
    \/ ThinOpenJob
    \/ ThinData
    \/ ThinParams
    \/ ThinWrite
    \/ DataInit
    \/ TtsDataInit

Spec == Init /\ [][Next]_vars

----------------------------------------------------------------------------
\* Two calls of collate for one job: the second call is made once the first
\* has written its record, with the same arguments but clob=1, and reads
\* the files the first call read.

\* collate, line 7: the locals of a call are fresh
Again ==
    /\ pc = "done" /\ result = "written"
    /\ run = 1
    /\ run' = 2
    /\ first' = [kind |-> "call", optthin |-> optthin, jobf |-> jobf, arg |-> arg,
                  found |-> found, flen |-> flen, header |-> dest.header]
    /\ pc' = "call"
    /\ optthin' = "0"
    /\ jobf' = [kind |-> "unread"]
    /\ arg' = [c \in Comp \cup {"extinct", "clob"} |-> -1]
    /\ no' = [c \in Comp \cup {"extinct"} |-> -1]
    /\ found' = [c \in Comp \cup {"fort16", "rin"} |-> "none"]
    /\ flen' = [c \in Comp \cup {"fort16"} |-> 0]
    /\ failed' = FALSE
    /\ axis' = << >>
    /\ axis_count' = 0
    /\ dataarr' = << >>
    /\ shape' = <<0>>
    /\ dparam' = [AMAXS |-> 0, EPS |-> 0]
    /\ hdu' = << >>
    /\ result' = "running"
    /\ err' = "none"
    /\ UNCHANGED <<dest, ptd, batchvars, edgevars>>

\* what the second call has read so far is what the first call read, and
\* it was called with clob=1
SameInputs ==
    run = 2 =>
        /\ pc # "call" => optthin = first.optthin
        /\ jobf.kind # "missing"
        /\ jobf.kind = "label" => jobf.labelend = "same"
        /\ jobf.kind \in {"disk", "thin"} => jobf = first.jobf
        /\ \A c \in Comp \cup {"extinct"} : arg[c] \in {-1, first.arg[c]}
        /\ arg["clob"] \in {-1, 1}
        /\ \A c \in DOMAIN found : found[c] \in {"none", first.found[c]}
        /\ \A c \in DOMAIN flen : found[c] # "none" => flen[c] = first.flen[c]

\* the second call reads the job file the first call read
SameJobFile == IF run = 2 THEN jobf' = first.jobf ELSE TRUE

NextTwice ==
    \/ Call /\ SameInputs'
    \/ OpenJob /\ SameInputs'
    \/ CheckLabel /\ SameInputs'
    \/ SameJobFile /\ ParseParams /\ SameInputs'
    \/ Phot /\ SameInputs'
    \/ Wall /\ SameInputs'
    \/ Angle /\ SameInputs'
    \/ Scatt /\ SameInputs'
    \/ Extinct /\ SameInputs'
    \/ Reshape /\ SameInputs'
    \/ Correct /\ SameInputs'
    \/ MakeHeader /\ SameInputs'
    \/ Write /\ SameInputs'
    \/ ThinOpenJob /\ SameInputs'
    \/ ThinData /\ SameInputs'
    \/ SameJobFile /\ ThinParams /\ SameInputs'
    \/ ThinWrite /\ SameInputs'
    \/ Again

SpecTwice == Init /\ [][NextTwice]_vars

----------------------------------------------------------------------------
\* A batch of calls of collate over one directory (path = destination = ''),
\* for one object name, followed by failCheck.  The calls are interleaved
\* step by step; each step is one access to the directory.  The components
\* are all switched on (the default keywords) and the job files are well
\* formed: what a call does with the contents is the one call above.

NumRuns == 2
Runs == 1..NumRuns

\* the job numbers of the batch: 10000 is beyond what numCheck accepts
JobNums == {1, 100, 1000, 1001, 10000}

RECURSIVE Pow10(_)
Pow10(k) == IF k = 0 THEN 1 ELSE 10 * Pow10(k - 1)

\* '%0wd' % num, as the sequence of its characters
Pad(num, w) == [i \in 1..w |-> (num \div Pow10(w - i)) % 10]

NumCheckShort(num, high) == Pad(num % 1000, 3)

\* numCheck, for a number it accepts
numCheck(num, high) ==
    IF num > 999 \/ high = 1 THEN Pad(num, 4) ELSE Pad(num, 3)

IsSuffix(a, b) ==
    /\ Len(a) <= Len(b)
    /\ \A i \in 1..Len(a) : a[i] = b[Len(b) - Len(a) + i]

IsPrefix(a, b) ==
    /\ Len(a) <= Len(b)
    /\ \A i \in 1..Len(a) : a[i] = b[i]

\* A file: its name is pre, then the object name where the pattern has it,
\* then the job string js, then ext.  A record carries its tags, the names
\* of the files it was made from and the call that wrote it (0: an earlier
\* program).
InputFile(pre, js) ==
    [pre |-> pre, js |-> js, ext |-> "", tags |-> {}, from |-> {}, by |-> 0]

RecordFile(pre, js, tags, from, by) ==
    [pre |-> pre, js |-> js, ext |-> ".fits", tags |-> tags, from |-> from,
     by |-> by]

PathOf(f) == <<f.pre, f.js, f.ext>>

\* the prefix of the record's job string: name_ or name_OTD_
RecordPre(mode) == IF mode = 1 THEN "_OTD_" ELSE "_"

\* destination+name+'_'+jobnum+'.fits' or destination+name+'_OTD_'+jobnum+'.fits'
OutPath(mode, jobnum) == <<RecordPre(mode), jobnum, ".fits">>

\* the job file: 'job'+jobnum or 'job_optthin'+jobnum
JobPre(mode) == IF mode = 1 THEN "job_optthin" ELSE "job"

\* glob of the pattern of a component, for the job string jobnum:
\* 'Phot*'+jobnum, 'fort16*'+name+'*'+jobnum, 'fort17*'+name+'_'+jobnum,
\* 'angle*'+name+'_'+jobnum+'*', 'scatt*'+name+'_'+jobnum+'*',
\* 'rin*'+name+'_'+jobnum
Glob(d, c, jobnum) ==
    {f \in d :
        /\ f.pre = c
        /\ CASE c \in {"Phot", "fort16"} -> f.ext = "" /\ IsSuffix(jobnum, f.js)
             [] c \in {"angle", "scatt"} -> IsPrefix(jobnum, f.js)
             [] OTHER -> f.ext = "" /\ f.js = jobnum}

\* the directory before the batch: the files of the jobs, named as the
\* model writes them for the keyword high; job 100 has no photosphere file,
\* job 1000 no scattered-light file and no fort16 file, job 1001 no rin
\* file; job 1 has a record of an earlier collate, without the FAILED tag
Dir0(high) ==
    LET js(n) == numCheck(n, high)
        all == {1, 100, 1000, 1001}
    IN  {InputFile(pre, js(n)) : pre \in {"job", "job_optthin", "fort17", "angle"},
                                 n \in all}
        \cup {InputFile("Phot", js(n)) : n \in all \ {100}}
        \cup {InputFile("scatt", js(n)) : n \in all \ {1000}}
        \cup {InputFile("fort16", js(n)) : n \in all \ {1000}}
        \cup {InputFile("rin", js(n)) : n \in all \ {1001}}
        \cup {RecordFile(RecordPre(m), js(1), {"RIN"}, {}, 0) : m \in {0, 1}}

\* the components a call looks up, in the order of the code, then the step
\* after the last
Lookups(mode) ==
    IF mode = 1 THEN <<"fort16", "write">>
    ELSE <<"Phot", "fort17", "angle", "scatt", "rin", "write">>

JobInit(num) ==
    [pc |-> "call", num |-> num, jobnum |-> << >>, reads |-> {},
     failed |-> FALSE, err |-> "none"]

JobRaise(j, e) == [j EXCEPT !.pc = "done", !.err = e]

\* the calls of the batch start: one per job number, the same mode and high
StartBatch ==
    /\ batch.state = "idle"
    /\ \E high \in {0, 1}, mode \in {0, 1}, nums \in [Runs -> JobNums] :
        /\ \A r, q \in Runs : r # q => nums[r] # nums[q]
        /\ batch' = [state |-> "running", high |-> high, optthin |-> mode,
                     dir0 |-> Dir0(high)]
        /\ job' = [r \in Runs |-> JobInit(nums[r])]
        /\ dir' = Dir0(high)
    /\ UNCHANGED <<callvars, ptd, calls, edgevars, scan>>

\* lines 115-117: jobnum = numCheck(jobnum, high=high)
Convert(r) ==
    /\ batch.state = "running"
    /\ job[r].pc = "call"
    /\ LET num == job[r].num
       IN  job' = [job EXCEPT ![r] =
                     IF num > 9999 \/ num < 0
                     THEN JobRaise(@, "ValueError:500")
                     ELSE [@ EXCEPT !.pc = "open",
                                    !.jobnum = numCheck(num, batch.high)]]
    /\ UNCHANGED <<callvars, ptd, calls, edgevars, batch, dir, scan>>

\* lines 125-129 and 222-226: open(path+job), return when there is none
OpenJobFile(r) ==
    /\ batch.state = "running"
    /\ job[r].pc = "open"
    /\ LET files == Glob(dir, JobPre(batch.optthin), job[r].jobnum)
       IN  IF files = {}
           THEN job' = [job EXCEPT ![r].pc = "done"]
           ELSE \E f \in files :
                   job' = [job EXCEPT ![r].pc = Lookups(batch.optthin)[1],
                                      ![r].reads = @ \cup {PathOf(f)}]
    /\ UNCHANGED <<callvars, ptd, calls, edgevars, batch, dir, scan>>

NextLookup(mode, c) ==
    LET l == Lookups(mode)
        k == CHOOSE i \in 1..Len(l) : l[i] = c
    IN  l[k + 1]

\* lines 141-153, 310-328, 337-358, 368-389, 399-420: glob(...)[0] of the
\* component; no file: the FAILED tag.  glob returns the matches in the
\* order of the directory, so [0] is any of them.
Lookup(r) ==
    /\ batch.state = "running"
    /\ job[r].pc \in {"Phot", "fort16", "fort17", "angle", "scatt"}
    /\ LET c == job[r].pc
           files == Glob(dir, c, job[r].jobnum)
           nxt == NextLookup(batch.optthin, c)
       IN  IF files = {}
           THEN job' = [job EXCEPT ![r].pc = nxt, ![r].failed = TRUE]
           ELSE \E f \in files :
                   job' = [job EXCEPT ![r].pc = nxt,
                                      ![r].reads = @ \cup {PathOf(f)}]
    /\ UNCHANGED <<callvars, ptd, calls, edgevars, batch, dir, scan>>

\* line 462: glob(path+'rin*'+name+'_'+jobnum)[0]
Rin(r) ==
    /\ batch.state = "running"
    /\ job[r].pc = "rin"
    /\ LET files == Glob(dir, "rin", job[r].jobnum)
       IN  IF files = {}
           THEN job' = [job EXCEPT ![r] = JobRaise(@, "IndexError:462")]
           ELSE \E f \in files :
                   job' = [job EXCEPT ![r].pc = "write",
                                      ![r].reads = @ \cup {PathOf(f)}]
    /\ UNCHANGED <<callvars, ptd, calls, edgevars, batch, dir, scan>>

\* the record a call writes: FAILED when a component was not found
RecordOf(r, j, mode) ==
    RecordFile(RecordPre(mode), j.jobnum,
               IF j.failed THEN {"FAILED"} ELSE {}, j.reads, r)

\* lines 211 and 478: hdu.writeto(..., clobber = clob)
WriteRecord(r) ==
    /\ batch.state = "running"
    /\ job[r].pc = "write"
    /\ LET out == OutPath(batch.optthin, job[r].jobnum)
           there == {f \in dir : PathOf(f) = out}
       IN  \E clob \in {0, 1} :
              IF there # {} /\ clob = 0
              THEN /\ job' = [job EXCEPT ![r] = JobRaise(@, "IOError:writeto")]
                   /\ dir' = dir
              ELSE /\ job' = [job EXCEPT ![r].pc = "done"]
                   /\ dir' = (dir \ there)
                             \cup {RecordOf(r, job[r], batch.optthin)}
    /\ UNCHANGED <<callvars, ptd, calls, edgevars, batch, scan>>

\* lines 541-544: glob(path+name+'_'+opt+'*.fits') for optthin == 1,
\* glob(path+name+'_'+wildhigh+'.fits') for optthin == 0
FailGlob(d, high, mode) ==
    {f \in d :
        /\ f.ext = ".fits"
        /\ IF mode = 1 THEN f.pre = "_OTD_"
           ELSE f.pre = "_" /\ Len(f.js) = (IF high = 0 THEN 3 ELSE 4)}

\* lines 546-556: the files whose header has the key 'Failed'
FailedOf(files) == {PathOf(f) : f \in {g \in files : "FAILED" \in g.tags}}

\* failCheck(name, path, jobnum='all', high, optthin), after the batch
FailCheck ==
    /\ batch.state = "running"
    /\ \A r \in Runs : job[r].pc = "done"
    /\ scan.state = "idle"
    /\ \E high \in {0, 1, 2}, mode \in {0, 1, 2} :
        scan' = IF mode \notin {0, 1}
                THEN [state |-> "raised", jobnum |-> "all", high |-> high,
                      optthin |-> mode, err |-> "NameError:548", files |-> {}]
                ELSE IF mode = 0 /\ high \notin {0, 1}
                THEN [state |-> "raised", jobnum |-> "all", high |-> high,
                      optthin |-> mode, err |-> "NameError:544", files |-> {}]
                ELSE [state |-> "returned", jobnum |-> "all", high |-> high,
                      optthin |-> mode, err |-> "none",
                      files |-> FailedOf(FailGlob(dir, high, mode))]
    /\ UNCHANGED <<callvars, ptd, calls, edgevars, batch, job, dir>>

\* lines 567-571: no file matches, print and return (None)
NoMatch == "returnedNone"

\* lines 531-533 and 564: glob(path+name+'_'+opt+jobnum+'.fits')
OneGlob(d, jobnum, mode) ==
    {f \in d : PathOf(f) = <<IF mode = 1 THEN "_OTD_" ELSE "_", jobnum, ".fits">>}

\* failCheck(name, path, jobnum, high, optthin) for one job number, after
\* the batch (lines 558-579)
FailCheckOne ==
    /\ batch.state = "running"
    /\ \A r \in Runs : job[r].pc = "done"
    /\ scan.state = "idle"
    /\ \E num \in JobNums, high \in {0, 1, 2}, mode \in {0, 1, 2} :
        LET file == OneGlob(dir, numCheck(num, high), mode)
            s(st, e, fs) == [state |-> st, jobnum |-> "one", num |-> num,
                             high |-> high, optthin |-> mode, err |-> e,
                             files |-> fs]
        IN  scan' = IF num > 9999 \/ num < 0
                    THEN s("raised", "ValueError:500", {})
                    ELSE IF file = {} THEN s(NoMatch, "none", {})
                    ELSE s("returned", "none", FailedOf(file))
    /\ UNCHANGED <<callvars, ptd, calls, edgevars, batch, job, dir>>

NextJobs ==
    \/ StartBatch
    \/ \E r \in Runs : Convert(r)
    \/ \E r \in Runs : OpenJobFile(r)
    \/ \E r \in Runs : Lookup(r)
    \/ \E r \in Runs : Rin(r)
    \/ \E r \in Runs : WriteRecord(r)
    \/ FailCheck
    \/ FailCheckOne

SpecJobs == Init /\ [][NextJobs]_vars

----------------------------------------------------------------------------
\* numCheck, the copy in collate.py and the copy in EDGE.py, called with a
\* number and then with a second number and the same high.

\* the numbers numCheck is called with: around 0, 999/1000 and 9999/10000
NumInputs == (-2..12) \cup (95..105) \cup (995..1005) \cup (9995..10002)

\* a slip that pads to four digits above 99
NumCheckEDGEWide(num, high) ==
    IF num > 99 \/ high = 1 THEN Pad(num, 4) ELSE Pad(num, 3)

\* EDGE.py, lines 294-300: numCheck, for a number it accepts
numCheckEDGE(num, high) ==
    IF num > 999 \/ high = 1 THEN Pad(num, 4) ELSE Pad(num, 3)

\* lines 499-505 of collate.py and 294-300 of EDGE.py: the outcome of one
\* call, ValueError included
NumCheckResult(copy, num, high) ==
    IF num > 9999 \/ num < 0
    THEN [err |-> "ValueError", numstr |-> << >>]
    ELSE [err |-> "none",
          numstr |-> IF copy = "collate" THEN numCheck(num, high)
                     ELSE numCheckEDGE(num, high)]

NumCheckBoth(num, high) ==
    [num |-> num,
     collate |-> NumCheckResult("collate", num, high),
     EDGE |-> NumCheckResult("EDGE", num, high)]

\* both copies are called with num and high
NumCheckCall ==
    /\ nc.state = "idle"
    /\ \E num \in NumInputs, high \in FlagVals :
        nc' = [state |-> "one", high |-> high, a |-> NumCheckBoth(num, high),
               b |-> NumCheckBoth(num, high)]
    /\ UNCHANGED <<callvars, ptd, calls, batchvars, pk, tts, obs>>

\* both copies are called with another number and the same high
NumCheckAgain ==
    /\ nc.state = "one"
    /\ \E num \in NumInputs \ {nc.a.num} :
        nc' = [nc EXCEPT !.state = "two", !.b = NumCheckBoth(num, nc.high)]
    /\ UNCHANGED <<callvars, ptd, calls, batchvars, pk, tts, obs>>

NextNum ==
    \/ NumCheckCall
    \/ NumCheckAgain

SpecNum == Init /\ [][NextNum]_vars

----------------------------------------------------------------------------
\* TTS_Obs.SPPickle and Red_Obs.SPPickle (src/EDGE.py).  A pickle name is
\* self.name, then the tag '_obs' or '_red', then '' or '_' and the digits
\* of numCheck(count), then '.pkl'; it is modelled by the tag and the digits.

\* the largest number numCheck accepts
NumMax == 9999

PickleName(tag, digits) == [tag |-> tag, digits |-> digits]

\* The directories picklepath: base tells whether the pickle without digits
\* is there, upto that the pickles 001..upto are there, extra the other
\* pickles with digits that are there.
PickleDirs ==
    [base : BOOLEAN, upto : {0, 2, NumMax}, extra : {{}, {4}}]

\* the number a string of digits stands for
RECURSIVE DigitsValue(_)
DigitsValue(digits) ==
    IF digits = << >> THEN 0
    ELSE 10 * DigitsValue(SubSeq(digits, 1, Len(digits) - 1))
         + digits[Len(digits)]

\* the file named out is in the directory d: the numbered pickles of d are
\* named as numCheck names them
InDir(d, out) ==
    IF out.digits = << >> THEN d.base
    ELSE LET k == DigitsValue(out.digits)
         IN  /\ k \in (1..d.upto) \cup d.extra
             /\ out.digits = numCheckEDGE(k, 0)

\* EDGE.py, lines 61-68: outname in filelist(picklepath); filelist pops the
\* names that start with '.', which every outname does when self.name does
InFilelist(d, hidden, out) == ~hidden /\ InDir(d, out)

\* lines 1772-1776 and 1960-1964: pathlist, outname and count before the loop
PickleCall ==
    /\ pk.state = "idle"
    /\ \E cls \in {"TTS_Obs", "Red_Obs"}, hidden \in BOOLEAN, d \in PickleDirs :
        pk' = [state |-> "loop", cls |-> cls, hidden |-> hidden, dir |-> d,
               tag |-> IF cls = "TTS_Obs" THEN "_obs" ELSE "_red",
               outname |-> PickleName(IF cls = "TTS_Obs" THEN "_obs" ELSE "_red",
                                      << >>),
               count |-> 1, err |-> "none", over |-> FALSE]
    /\ UNCHANGED <<callvars, ptd, calls, batchvars, nc, tts, obs>>

\* lines 1777-1785 and 1965-1973: one pass of the while loop
PickleLoop ==
    /\ pk.state = "loop"
    /\ pk' = IF InFilelist(pk.dir, pk.hidden, pk.outname)
             THEN IF pk.count > NumMax \/ pk.count < 0
                  THEN [pk EXCEPT !.state = "raised", !.err = "ValueError:295"]
                  ELSE [pk EXCEPT !.count = pk.count + 1,
                                  !.outname = PickleName(pk.tag,
                                                  numCheckEDGE(pk.count, 0))]
             ELSE [pk EXCEPT !.state = "open"]
    /\ UNCHANGED <<callvars, ptd, calls, batchvars, nc, tts, obs>>

\* lines 1786-1790 and 1974-1978: open(picklepath + outname, 'wb') and dump
PickleDump ==
    /\ pk.state = "open"
    /\ pk' = [pk EXCEPT !.state = "written",
                        !.over = InDir(pk.dir, pk.outname)]
    /\ UNCHANGED <<callvars, ptd, calls, batchvars, nc, tts, obs>>

NextPickle ==
    \/ PickleCall
    \/ PickleLoop
    \/ PickleDump

SpecPickle == Init /\ [][NextPickle]_vars

----------------------------------------------------------------------------
\* TTS_Obs (src/EDGE.py): __init__ and add_photometry.  An entry of
\* photometry is named by the number of the call that stored it; asked is
\* the ulim argument of that call.  raw_input is the answer of the user.

\* the calls of add_photometry made on one object
MaxCalls == 3

Scopes == {"IRAC", "MIPS"}

\* the answers to 'Proceed? (Y/N): ': yes, no, anything else
Answers == {"Y", "N", "other"}

\* the last attempt the user is given
MaxTries == 5

\* lines 1656-1667: __init__
ObsInit ==
    /\ obs.state = "idle"
    /\ obs' = [state |-> "ready", photometry |-> << >>, ulim |-> << >>,
               calls |-> 0, last |-> "init"]
    /\ UNCHANGED <<callvars, ptd, calls, batchvars, nc, pk, tts>>

\* lines 1736-1741 and 1750-1755: store the entry, append the scope to ulim
\* when ulim == 1
StoreEntry(o, scope, asked, n) ==
    [o EXCEPT !.photometry = (scope :> [n |-> n, asked |-> asked]) @@ @,
              !.ulim = IF asked = 1 THEN Append(@, scope) ELSE @]

\* lines 1729-1732 and 1749-1756: the call, up to the first prompt
AddPhotometry ==
    /\ obs.state = "ready"
    /\ obs.calls < MaxCalls
    /\ \E scope \in Scopes, asked \in {0, 1} :
        LET n == obs.calls + 1
            o == [obs EXCEPT !.calls = n]
        IN  obs' = IF scope \in DOMAIN obs.photometry
                   THEN [state |-> "asking", photometry |-> obs.photometry,
                         ulim |-> obs.ulim, calls |-> n, last |-> obs.last,
                         scope |-> scope, asked |-> asked, tries |-> 1,
                         before |-> [photometry |-> obs.photometry,
                                     ulim |-> obs.ulim]]
                   ELSE [StoreEntry(o, scope, asked, n) EXCEPT !.last = "added"]
    /\ UNCHANGED <<callvars, ptd, calls, batchvars, nc, pk, tts>>

\* the object once the call is over
Ready(o, last) ==
    [state |-> "ready", photometry |-> o.photometry, ulim |-> o.ulim,
     calls |-> o.calls, last |-> last, before |-> o.before]

\* lines 1732-1748: one pass of the while loop, and its else clause
Proceed ==
    /\ obs.state = "asking"
    /\ \E proceed \in Answers :
        obs' = CASE proceed = "Y" ->
                      Ready(StoreEntry(obs, obs.scope, obs.asked, obs.calls),
                            "replaced")
                 [] proceed = "N" -> Ready(obs, "declined")
                 [] OTHER ->
                      IF obs.tries + 1 <= MaxTries
                      THEN [obs EXCEPT !.tries = @ + 1]
                      ELSE Ready(obs, "abandoned")
    /\ UNCHANGED <<callvars, ptd, calls, batchvars, nc, pk, tts>>

NextObs ==
    \/ ObsInit
    \/ AddPhotometry
    \/ Proceed

SpecObs == Init /\ [][NextObs]_vars

----------------------------------------------------------------------------
\* The records written and what the claims say of them.

Written == result = "written"

DiskRecord == Written /\ optthin = "0"

ThinRecord == Written /\ optthin \in {"1", "2"}

\* the axis tags of a header, with their indices
AxisMap(h) == [t \in DOMAIN h \cap AxisTags |-> h[t]]

\* the array arr holds a sample of column col of the file of c
Holds(c, col, arr) == \E p \in 1..Len(arr) : arr[p].f = c /\ arr[p].col = col

\* the components found, read and present in the array arr
LoadedIn(arr) == {c \in Comp : found[c] = "found" /\ Holds(c, "flux", arr)}

\* the disk/angle file was not loaded: disabled by the caller, missing or empty
AngleNotLoaded == arg["angle"] = 1 \/ found["angle"] \in {"missing", "empty"}

\* The exceptions that end a run for a reason other than a missing or empty
\* component file: a keyword that is neither 0 nor 1, a reshape that does
\* not fit, the rin file missing or empty, and writeto on an existing file
\* without clob.
OtherAborts ==
    {"IOError:331", "IOError:362", "IOError:393", "IOError:424", "IOError:437",
     "ValueError:441", "IndexError:462", "TypeError:462", "IOError:writeto"}

\* C1: in disk mode, a component whose keyword was passed as 0 and whose
\* file is missing or empty never makes collate raise or return: from its
\* block on, failed is set and its no* local is 1 (disabled), the run is
\* only ever ended by one of the other aborts, and the record written has
\* the FAILED tag, no axis tag for the component and no sample of its file.
C1_MissingComponentDegrades ==
    \A c \in Comp :
        (optthin = "0" /\ arg[c] = 0 /\ found[c] \in {"missing", "empty"}) =>
            /\ failed
            /\ no[c] = 1
            /\ result # "returned"
            /\ err \in {"none"} \cup OtherAborts
            /\ (pc = "done" /\ err = "none") => Written
            /\ Written =>
                /\ "FAILED" \in DOMAIN dest.header
                /\ AxisTag(c) \notin DOMAIN dest.header
                /\ \A p \in 1..Len(dest.data) : dest.data[p].f # c

\* C1 witness: a record written by a run that found the photosphere file
\* missing and the angle file empty, and loaded the wall file
C1_Witness ==
    /\ DiskRecord
    /\ arg["phot"] = 0 /\ found["phot"] = "missing"
    /\ arg["angle"] = 0 /\ found["angle"] = "empty"
    /\ found["wall"] = "found"
    /\ "WALLAXIS" \in DOMAIN dest.header

\* what C2 says of a run in which extinction was asked for (noextinct=0)
\* and the angle file was not loaded, but for the axis map
C2_Degrades ==
    /\ failed
    /\ noextinct = 1
    /\ result # "returned"
    /\ err \in {"none"} \cup OtherAborts
    /\ (pc = "done" /\ err = "none") => Written
    /\ Written =>
        /\ "FAILED" \in DOMAIN dest.header
        /\ "NOEXT" \in DOMAIN dest.header
        /\ "EXTAXIS" \notin DOMAIN dest.header
        /\ \A p \in 1..Len(dest.data) : dest.data[p].att = << >>

C2_Case == optthin = "0" /\ arg["extinct"] = 0 /\ AngleNotLoaded

PhotWallMap == ("WLAXIS" :> 0) @@ ("PHOTAXIS" :> 1) @@ ("WALLAXIS" :> 2)

\* C2 as stated: extinction asked for without the angle file loaded sets
\* FAILED, turns extinction off, writes NOEXT and no EXTAXIS, corrects no
\* column, and with photosphere and wall loaded the axis map is exactly
\* {WLAXIS:0, PHOTAXIS:1, WALLAXIS:2}
C2_Original ==
    C2_Case =>
        /\ C2_Degrades
        /\ (Written /\ found["phot"] = "found" /\ found["wall"] = "found")
              => AxisMap(dest.header) = PhotWallMap

\* C2 amended: the same, the axis map being {WLAXIS:0, PHOTAXIS:1,
\* WALLAXIS:2} when the scattered-light file was not loaded, and that map
\* with SCATAXIS:3 added when it was
C2_ExtinctionWithoutAngle ==
    C2_Case =>
        /\ C2_Degrades
        /\ (Written /\ found["phot"] = "found" /\ found["wall"] = "found")
              => AxisMap(dest.header) =
                    IF found["scatt"] = "found"
                    THEN ("SCATAXIS" :> 3) @@ PhotWallMap ELSE PhotWallMap

\* C2 witness: photosphere and wall loaded, angle file missing, extinction
\* asked for, scattered light disabled, record written
C2_Witness ==
    /\ DiskRecord
    /\ found["phot"] = "found" /\ found["wall"] = "found"
    /\ arg["angle"] = 0 /\ found["angle"] = "missing"
    /\ arg["scatt"] = 1 /\ arg["extinct"] = 0
    /\ AxisMap(dest.header) = PhotWallMap

\* C3: the record written in disk mode has one axis tag for the wavelength,
\* one for each component found and loaded, and one more exactly when the
\* extinction column was appended
C3_AxisCount ==
    DiskRecord =>
        Cardinality(DOMAIN AxisMap(dest.header)) =
            1 + Cardinality(LoadedIn(dest.data))
              + (IF Holds("angle", "ext", dest.data) THEN 1 ELSE 0)

\* C3 witness: a record with all four components and the extinction column
C3_Witness ==
    /\ DiskRecord
    /\ LoadedIn(dest.data) = Comp
    /\ Holds("angle", "ext", dest.data)
    /\ Cardinality(DOMAIN AxisMap(dest.header)) = 6

\* the rows of a table and the number of its axis tags
Rows(rec) == rec.shape[1]

NumAxes(rec) == Cardinality(DOMAIN AxisMap(rec.header))

\* C4 as stated: every record written, in either mode, failed or not, has
\* as many rows as axis tags
C4_Original == Written => Rows(dest) = NumAxes(dest)

\* C4 amended: in disk mode the table has as many rows as axis entries from
\* the reshape on and in the record written; an optically thin record that
\* is not failed has two rows and two axis tags; a failed optically thin
\* record has the tags WLAXIS and LFLAXIS and an empty array without rows
C4_RowsMatchAxisTags ==
    /\ (optthin = "0" /\ pc \in {"correct", "header", "write"})
          => shape[1] = Cardinality(DOMAIN axis)
    /\ DiskRecord => Rows(dest) = NumAxes(dest)
    /\ (ThinRecord /\ "FAILED" \notin DOMAIN dest.header)
          => Rows(dest) = 2 /\ NumAxes(dest) = 2
    /\ (ThinRecord /\ "FAILED" \in DOMAIN dest.header)
          => /\ dest.shape = <<0>>
             /\ dest.data = << >>
             /\ DOMAIN AxisMap(dest.header) = {"WLAXIS", "LFLAXIS"}

\* C4 witness: a failed optically thin record, and the tags it carries
C4_Witness ==
    /\ ThinRecord
    /\ found["fort16"] = "missing"
    /\ "FAILED" \in DOMAIN dest.header
    /\ Rows(dest) = 0 /\ NumAxes(dest) = 2

\* C5: no step of a run clears failed once it is set, and the record is
\* written with the FAILED tag whenever failed is set
C5_FailedMonotonic ==
    [][/\ failed => failed'
       /\ (result' = "written" /\ failed') => "FAILED" \in DOMAIN dest'.header]_vars

\* C5 witness: a record with the FAILED tag written by a run whose first
\* block set failed and whose later blocks read their files
C5_Witness ==
    /\ DiskRecord
    /\ found["phot"] = "missing"
    /\ found["wall"] = "found" /\ found["angle"] = "found"
    /\ arg["extinct"] = 0
    /\ "FAILED" \in DOMAIN dest.header

\* the axis tag t of the record written stands for a file that was found,
\* not empty, and whose column is in the table
Sourced(t) ==
    CASE t = "WLAXIS"  -> \E c \in Comp \cup {"fort16"} :
                              found[c] = "found" /\ Holds(c, "wl", dest.data)
      [] t = "LFLAXIS" -> found["fort16"] = "found" /\ Holds("fort16", "flux", dest.data)
      [] t = "EXTAXIS" -> found["angle"] = "found" /\ Holds("angle", "ext", dest.data)
      [] OTHER         -> \E c \in Comp :
                              /\ t = AxisTag(c)
                              /\ found[c] = "found"
                              /\ Holds(c, "flux", dest.data)

AllDisabled == \A c \in Comp : arg[c] = 1

\* C6 as stated: in a record without the FAILED tag every axis tag stands
\* for a file that was found, not empty, and loaded
C6_Original ==
    (Written /\ "FAILED" \notin DOMAIN dest.header)
        => \A t \in DOMAIN AxisMap(dest.header) : Sourced(t)

\* C6 amended: the same, but for WLAXIS in the disk record of a call that
\* disabled all four components (and extinction): that record has the tag
\* WLAXIS and no wavelength column
C6_AxisTagsSourced ==
    (Written /\ "FAILED" \notin DOMAIN dest.header)
        => \A t \in DOMAIN AxisMap(dest.header) :
              \/ Sourced(t)
              \/ t = "WLAXIS" /\ optthin = "0" /\ AllDisabled /\ arg["extinct"] = 1

\* C6 witness: a record without FAILED that carries every axis tag
C6_Witness ==
    /\ DiskRecord
    /\ "FAILED" \notin DOMAIN dest.header
    /\ DOMAIN AxisMap(dest.header) = AxisTags \ {"LFLAXIS"}
    /\ \A t \in DOMAIN AxisMap(dest.header) : Sourced(t)

\* the components read so far, and the first of them in the order
\* photosphere, wall, angle, scattered light
Loaded == {c \in Comp : found[c] = "found"}

FirstLoaded ==
    CompOrder[CHOOSE i \in 1..4 :
                 /\ CompOrder[i] \in Loaded
                 /\ \A j \in 1..(i - 1) : CompOrder[j] \notin Loaded]

\* all the files read have the same number of rows
UniformGrid == \A c, d \in Loaded : flen[c] = flen[d]

\* C7: whenever a component is loaded, the table of the record written in
\* disk mode has exactly one wavelength column: row 0 is the wavelength
\* column of the first loaded component in the order photosphere, wall,
\* angle, scattered light, and no other row holds a wavelength sample
C7_WavelengthIsRowZero ==
    (DiskRecord /\ Loaded # {}) =>
        /\ Row(dest.data, dest.shape, 0)
              = Column(FirstLoaded, "wl", flen[FirstLoaded])
        /\ \A i \in 1..(dest.shape[1] - 1) :
              \A k \in 1..dest.shape[2] :
                  Row(dest.data, dest.shape, i)[k].col # "wl"

\* What holds of the wavelength column (C7): the blocks concatenate
\* exactly one, first, from the first loaded component, whatever the
\* outcome of each block; it is row 0 of the record, untouched by the
\* correction, when the files read have one grid
WavelengthColumnOnOneGrid ==
    (optthin = "0" /\ Loaded # {}) =>
        LET n == flen[FirstLoaded]
        IN  /\ Len(dataarr) >= n
            /\ \A p \in 1..Len(dataarr) : (dataarr[p].col = "wl") <=> (p <= n)
            /\ \A p \in 1..n : dataarr[p].f = FirstLoaded /\ dataarr[p].k = p
            /\ (Written /\ UniformGrid)
                  => /\ dest.shape[2] = n
                     /\ Row(dest.data, dest.shape, 0) = Column(FirstLoaded, "wl", n)

\* every block has run and none loaded a file
NoneLoaded == (\A c \in Comp : arg[c] \in {0, 1}) /\ Loaded = {}

\* C8 as stated: when no component is loaded the record is written with an
\* empty table and carries the FAILED tag
C8_Original ==
    (DiskRecord /\ NoneLoaded)
        => dest.data = << >> /\ "FAILED" \in DOMAIN dest.header

\* C8 amended: when no component is loaded the reshape does not fail and
\* the record is written with an empty table of one row; it carries the
\* FAILED tag unless the caller disabled all four components and passed
\* noextinct=1, and then it carries no FAILED tag
C8_EmptyRecord ==
    (optthin = "0" /\ NoneLoaded) =>
        /\ err # "ValueError:441"
        /\ (pc = "done" /\ err = "none") => Written
        /\ Written =>
            /\ dest.data = << >>
            /\ dest.shape = <<1, 0>>
            /\ DOMAIN AxisMap(dest.header) = {"WLAXIS"}
            /\ ("FAILED" \in DOMAIN dest.header)
                  <=> ~(AllDisabled /\ arg["extinct"] = 1)

\* C8 witness: a record written with no component loaded, two of the files
\* being missing or empty
C8_Witness ==
    /\ DiskRecord
    /\ NoneLoaded
    /\ found["phot"] = "missing" /\ found["angle"] = "empty"
    /\ dest.data = << >>
    /\ "FAILED" \in DOMAIN dest.header

\* row i of the record written holds samples of one column of one file
RowOfOneColumn(i) ==
    \A p, q \in 1..dest.shape[2] :
        LET r == Row(dest.data, dest.shape, i)
        IN  r[p].f = r[q].f /\ r[p].col = r[q].col

\* C9: a record is written in disk mode only from columns of the same
\* number of rows, and no row of its table mixes samples of different
\* columns
C9_GridMismatchAborts ==
    DiskRecord =>
        /\ UniformGrid
        /\ \A i \in 0..(dest.shape[1] - 1) : RowOfOneColumn(i)

\* the rows the correction is to change: the photosphere row and the wall
\* row, each if its file was loaded
CorrectedRows == {axis[AxisTag(c)] : c \in {"phot", "wall"} \cap Loaded}

\* C10: the extinction correction keeps the shape of the table, multiplies
\* the photosphere row and the wall row (each if loaded) by exp(-e) with e
\* the sample of the extinction row in the same place, and leaves every
\* other row, the wavelength, angle, scattered-light and extinction rows
\* among them, as it was; with extinction off it changes nothing
C10_CorrectionFrame ==
    [][pc = "correct" =>
        /\ shape' = shape
        /\ Len(dataarr') = Len(dataarr)
        /\ noextinct # 0 => dataarr' = dataarr
        /\ noextinct = 0 =>
            /\ {0, axis["EXTAXIS"]} \cap CorrectedRows = {}
            /\ \A i \in 0..(shape[1] - 1) :
                Row(dataarr', shape, i) =
                    IF i \in CorrectedRows
                    THEN [k \in 1..shape[2] |->
                            Attenuate(Row(dataarr, shape, i)[k],
                                      Row(dataarr, shape, axis["EXTAXIS"])[k])]
                    ELSE Row(dataarr, shape, i)]_vars

\* C10 witness: the table after the correction of a run that loaded all
\* four components and the extinction column
C10_Witness ==
    /\ optthin = "0" /\ pc = "header"
    /\ Loaded = Comp
    /\ noextinct = 0
    /\ \E p \in 1..Len(dataarr) : dataarr[p].f = "wall" /\ dataarr[p].att # << >>
    /\ \E p \in 1..Len(dataarr) : dataarr[p].f = "phot" /\ dataarr[p].att # << >>

\* the stages of a disk-mode run, in the order of the code
StageRank(stage) ==
    CASE stage = "call"    -> 0
      [] stage = "open"    -> 1
      [] stage = "label"   -> 2
      [] stage = "params"  -> 3
      [] stage = "phot"    -> 4
      [] stage = "wall"    -> 5
      [] stage = "angle"   -> 6
      [] stage = "scatt"   -> 7
      [] stage = "extinct" -> 8
      [] stage = "reshape" -> 9
      [] stage = "correct" -> 10
      [] stage = "header"  -> 11
      [] stage = "write"   -> 12
      [] stage = "done"    -> 13
      [] OTHER             -> -1

\* some sample of the array new was attenuated since the array was old
AttenuatedSince(old, new) ==
    \E p \in 1..Len(new) :
        new[p].att # (IF p <= Len(old) THEN old[p].att ELSE << >>)

\* C11: in a disk-mode run, until it is over, the stages follow one another in the order
\* parse, discover and assemble, reshape, correct, header, write; the axis
\* map and the axis count change only before the reshape, the shape only in
\* the reshape, samples are attenuated only in the correction step, which
\* comes after the reshape and before the write, no sample is ever
\* attenuated more than once, and the record written holds the table as
\* the correction left it
C11_StageOrder ==
    [][(optthin' = "0" /\ pc # "done") =>
        /\ StageRank(pc') > StageRank(pc)
        /\ (axis' # axis \/ axis_count' # axis_count)
              => StageRank(pc) < StageRank("reshape")
        /\ shape' # shape => pc = "reshape"
        /\ AttenuatedSince(dataarr, dataarr')
              => pc = "correct" /\ pc' = "header" /\ Len(shape) = 2
        /\ \A p \in 1..Len(dataarr') : Len(dataarr'[p].att) <= 1
        /\ dest' # dest
              => pc = "write" /\ dest'.data = dataarr /\ dest'.shape = shape]_vars

\* C11 witness: a record written in disk mode whose photosphere and wall
\* rows were each attenuated once by the extinction row
C11_Witness ==
    /\ DiskRecord
    /\ arg["extinct"] = 0 /\ "EXTAXIS" \in DOMAIN dest.header
    /\ \E p \in 1..Len(dest.data) :
          dest.data[p].f = "phot" /\ Len(dest.data[p].att) = 1
    /\ \E p \in 1..Len(dest.data) :
          dest.data[p].f = "wall" /\ Len(dest.data[p].att) = 1

\* the inner-wall column of the record at the output path
WallRowOf(f) == Row(f.data, f.shape, f.header["WALLAXIS"])

\* C12: dataInit loads an inner wall only from a record that carries NOEXT
\* and raises IOError for a record without it; the wall column of a record
\* with NOEXT was not corrected by collate, and no sample of the inner wall
\* dataInit loads has been multiplied by exp(-extinction) more than once
C12_NoDoubleExtinction ==
    /\ (Written /\ "NOEXT" \in DOMAIN dest.header)
          => \A p \in 1..Len(dest.data) : dest.data[p].att = << >>
    /\ (ptd.state # "idle" /\ dest.kind # "absent" /\ "NOEXT" \notin DOMAIN HeaderOf(dest))
          => ptd = PtdRaise("IOError:1381")
    /\ ptd.state = "loaded" =>
          /\ "NOEXT" \in DOMAIN dest.header
          /\ \A k \in 1..Len(ptd.iwall) : Len(ptd.iwall[k].att) <= 1

\* C12 witness: dataInit has multiplied the wall column of a record with
\* NOEXT, of three samples, once by the extinction row of the disk record
C12_Witness ==
    /\ ptd.state = "loaded"
    /\ "NOEXT" \in DOMAIN dest.header
    /\ Len(ptd.iwall) = MaxLen
    /\ Len(WallRowOf(dest)) = MaxLen
    /\ \A k \in 1..Len(ptd.iwall) :
          /\ ptd.iwall[k].f = "wall" /\ ptd.iwall[k].col = "flux"
          /\ ptd.iwall[k].att = << <<"angle", "ext", k>> >>
          /\ WallRowOf(dest)[k].att = << >>

\* the candidates of a menu that are active: set lines
ActiveIn(menu) == {i \in 1..Len(menu) : menu[i].mark = "s"}

\* exactly one candidate is active and every other one is commented out
ExactlyOneActive(menu) ==
    /\ Cardinality(ActiveIn(menu)) = 1
    /\ \A i \in 1..Len(menu) : menu[i].mark \in {"s", "#"}

ValueOfActive(menu) == menu[CHOOSE i \in ActiveIn(menu) : TRUE].val

\* the exceptions of the parameter loop, lines 247-280
ParseAborts ==
    {"IndexError:251", "IndexError:260", "IOError:265", "ValueError:271", "IndexError:280"}

\* the disk-mode run has read the job file and stored every parameter
ParamsParsed == jobf.kind = "disk" /\ err \notin ParseAborts

\* C13: a menu (EPS, AMAXS) with exactly one active candidate, the others
\* commented out, never makes the parameter loop fail, and the value the
\* run stores for the parameter is the value of that candidate, whichever
\* its position and however many candidates the menu has
C13_OneActiveRecorded ==
    (jobf.kind = "disk" /\ jobf.head = "ok") =>
        /\ ExactlyOneActive(jobf.amaxs) =>
              /\ err # "IndexError:251"
              /\ ParamsParsed => dparam.AMAXS = ValueOfActive(jobf.amaxs)
        /\ ExactlyOneActive(jobf.eps) =>
              /\ err \notin {"IndexError:260", "IOError:265"}
              /\ ParamsParsed => dparam.EPS = ValueOfActive(jobf.eps)

\* What holds of a menu with one active candidate (C13): the value of the
\* candidate is stored when the menu has the num_amax (num_eps) candidates
\* the loop indexes
OneActiveOfFullMenu ==
    (jobf.kind = "disk" /\ jobf.head = "ok") =>
        /\ (ExactlyOneActive(jobf.amaxs) /\ Len(jobf.amaxs) = num_amax) =>
              /\ err # "IndexError:251"
              /\ ParamsParsed => dparam.AMAXS = ValueOfActive(jobf.amaxs)
        /\ (ExactlyOneActive(jobf.eps) /\ Len(jobf.eps) = num_eps
                /\ err # "IndexError:251") =>
              /\ err \notin {"IndexError:260", "IOError:265"}
              /\ ParamsParsed => dparam.EPS = ValueOfActive(jobf.eps)

\* a menu without an active candidate, or with more than one
BadMenu(menu) == Cardinality(ActiveIn(menu)) # 1

\* C14: a run whose job file has an EPS menu or an AMAXS menu with no
\* active candidate or with more than one ends in an exception of the
\* parameter loop: it stores no value for the parameter and writes no
\* record, in disk mode and in the optically thin mode
C14_BadMenuFails ==
    /\ (jobf.kind = "disk" /\ (BadMenu(jobf.amaxs) \/ BadMenu(jobf.eps)))
          => result = "raised" /\ err \in ParseAborts
    /\ (jobf.kind = "thin" /\ BadMenu(jobf.amaxs))
          => result = "raised" /\ err \in {"IndexError:183", "IndexError:184", "IndexError:200"}

\* the job file could not be opened
JobFileMissing == jobf.kind = "missing"

\* the labelend of the job file is not name_jobnum
LabelMismatch == jobf.kind = "label" /\ jobf.labelend = "other"

\* C15: when the job file cannot be opened, in disk mode or in the
\* optically thin mode, or when in disk mode its labelend is not
\* name_jobnum, the run is over: collate has returned, it has raised
\* nothing, it has written no record and the file at the output path is
\* what it was, and nothing was read or assembled
C15_ReturnsWithoutRecord ==
    (JobFileMissing \/ LabelMismatch) =>
        /\ pc = "done" /\ result = "returned" /\ err = "none"
        /\ dest \in {NoFile, OldFile}
        /\ dataarr = << >> /\ hdu = << >>

\* C15 witness: a disk-mode run returned on a labelend that is not
\* name_jobnum and left the file at the output path alone; the same for an
\* optically thin run without job file is reached too
C15_Witness ==
    /\ optthin = "0" /\ LabelMismatch
    /\ result = "returned"
    /\ dest = OldFile

\* the record the run at the write step is about to write
RecordOfRun(h) == [kind |-> "rec", header |-> h, data |-> dataarr, shape |-> shape]

\* C16: at the write step, in either mode, with a file at the output path:
\* a call with clob=0 raises IOError and leaves the file as it was; a call
\* with clob=1 replaces it by the record of this run, the last writer; and
\* no other step changes the file
C16_ClobberGuard ==
    [][/\ (pc \in {"write", "o_write"} /\ dest.kind # "absent") =>
            IF arg'["clob"] = 0
            THEN /\ dest' = dest
                 /\ result' = "raised" /\ err' = "IOError:writeto"
            ELSE /\ arg'["clob"] = 1
                 /\ result' = "written"
                 /\ dest' = RecordOfRun(hdu')
                 /\ dest' # dest
       /\ dest' # dest => pc \in {"write", "o_write"}]_vars

\* C16 witness: a run called with clob=0 got to the write step, found a
\* file at the output path, raised IOError and left the file as it was
C16_Witness ==
    /\ arg["clob"] = 0
    /\ result = "raised" /\ err = "IOError:writeto"
    /\ dest = OldFile
    /\ hdu # << >>

\* the exceptions of a job file that breaks the convention, in either mode
ConfigAborts ==
    ParseAborts \cup {"IndexError:233", "IndexError:183", "IndexError:184", "IndexError:200"}

\* the exceptions of a call with a keyword that is neither 0 nor 1
KeywordAborts ==
    {"IOError:483", "IOError:331", "IOError:362", "IOError:393", "IOError:424", "IOError:437"}

\* some data file of the job was looked for and was missing or empty
SomeFileMissing == \E c \in DOMAIN found : found[c] \in {"missing", "empty"}

\* C17: a run called with valid keywords raises only for a job file that
\* breaks the convention, for a table that does not reshape, or for a file
\* at the output path with clob=0; whatever else is missing or empty among
\* the files of the job, and extinction without the angle file, ends in a
\* record with the FAILED tag
C17_OnlyThreeAborts ==
    /\ result = "raised" =>
          err \in ConfigAborts \cup KeywordAborts \cup {"ValueError:441", "IOError:writeto"}
    /\ (Written /\ (SomeFileMissing \/ C2_Case)) => "FAILED" \in DOMAIN dest.header

Patterns(mode) ==
    IF mode = 1 THEN {"job_optthin", "fort16"}
    ELSE {"job", "Phot", "fort17", "angle", "scatt", "rin"}

\* the call has its job string
Converted(r) == batch.state = "running" /\ job[r].jobnum # << >>

\* the call has written its record
WroteRecord(r) == Converted(r) /\ \E f \in dir : f.by = r

\* the files at the path the call writes to
AtOutPath(d, r) ==
    {f \in d : PathOf(f) = OutPath(batch.optthin, job[r].jobnum)}

\* C19: in every interleaving of calls for distinct job numbers (same name,
\* mode and high), the calls write to distinct paths; every glob of a call
\* sees the files it would see were the call alone, and the call reads
\* only these; the record a call wrote is made of what that call read and
\* stays as written, and until the call writes, its path holds what it held
\* before the batch.
C19_RunsIndependent ==
    \A r \in Runs :
        Converted(r) =>
            /\ \A q \in Runs \ {r} :
                  Converted(q) =>
                      OutPath(batch.optthin, job[q].jobnum)
                          # OutPath(batch.optthin, job[r].jobnum)
            /\ \A c \in Patterns(batch.optthin) :
                  Glob(dir, c, job[r].jobnum)
                      = Glob(batch.dir0, c, job[r].jobnum)
            /\ job[r].reads \subseteq {PathOf(f) : f \in batch.dir0}
            /\ \A f \in dir :
                  f.by = r => f = RecordOf(r, job[r], batch.optthin)
            /\ IF WroteRecord(r)
               THEN AtOutPath(dir, r) = {RecordOf(r, job[r], batch.optthin)}
               ELSE AtOutPath(dir, r) = AtOutPath(batch.dir0, r)

\* both calls have written their records, and one of them has read a file
\* that carries the job string of the other
C19_Witness ==
    /\ \A r \in Runs : WroteRecord(r)
    /\ \E r \in Runs, q \in Runs :
          /\ r # q
          /\ \E path \in job[r].reads : path[2] = job[q].jobnum

\* the collated records of the object in the directory
Records(d) == {f \in d : f.ext = ".fits"}

\* failCheck(name, path): jobnum = 'all', high and optthin left at 0
DefaultScan ==
    /\ scan.state = "returned"
    /\ scan.jobnum = "all"
    /\ scan.high = 0
    /\ scan.optthin = 0

\* C20: failCheck(name, path, jobnum='all') returns exactly the collated
\* records of the object in the directory that carry the FAILED tag.
C20_ExactlyTheFailed ==
    DefaultScan => scan.files = FailedOf(Records(dir))

\* the half of C20 that holds, whatever high and optthin: what failCheck
\* returns is a record of the directory that carries the tag
FailCheckSound ==
    scan.state = "returned" => scan.files \subseteq FailedOf(Records(dir))

\* no value of high returns the failed disk records of jobs 100 and 1000
\* written with high = 0
MixedWidthsMissed ==
    (/\ scan.state = "returned"
     /\ scan.jobnum = "all"
     /\ scan.optthin = 0
     /\ batch.optthin = 0
     /\ batch.high = 0
     /\ {job[r].num : r \in Runs} = {100, 1000}
     /\ \A r \in Runs : WroteRecord(r))
        => scan.files # FailedOf(Records(dir))

\* failCheck has come back without an exception
ScanCameBack == scan.state \in {"returned", "returnedNone"}

\* C21: failCheck always returns a list, empty when no failed job is found,
\* for jobnum='all' and for one job number, also when no record file
\* matches.
C21_AlwaysAList ==
    ScanCameBack => scan.state = "returned"

\* the part of C21 that holds: with jobnum='all' and no matching record the
\* list is empty, and for one job whose record has no FAILED tag as well
EmptyListWhenNoneFailed ==
    (/\ scan.state \in {"returned", "returnedNone"}
     /\ \/ scan.jobnum = "all"
        \/ OneGlob(dir, numCheck(scan.num, scan.high), scan.optthin) # {})
        => scan.state = "returned"

\* int(numstr) of a string of digits
RECURSIVE ToInt(_)
ToInt(digits) ==
    IF digits = << >> THEN 0
    ELSE 10 * ToInt(SubSeq(digits, 1, Len(digits) - 1)) + digits[Len(digits)]

\* what C22 says of one call of one copy
NumCheckAsClaimed(res, num, high) ==
    IF num < 0 \/ num > 9999 THEN res.err = "ValueError"
    ELSE /\ res.err = "none"
         /\ Len(res.numstr) = (IF num > 999 \/ high = 1 THEN 4 ELSE 3)
         /\ \A i \in 1..Len(res.numstr) : res.numstr[i] \in 0..9
         /\ ToInt(res.numstr) = num

\* C22: for 0 <= num <= 9999 numCheck returns the digits of num padded with
\* zeros to 4 characters when num > 999 or high == 1 and to 3 otherwise, so
\* the result converts back to num and distinct numbers give distinct
\* strings for a fixed high; outside 0..9999 it raises ValueError; the
\* copies of collate.py and EDGE.py give the same result.
C22_NumCheck ==
    nc.state # "idle" =>
        /\ \A x \in {nc.a, nc.b} :
              /\ NumCheckAsClaimed(x.collate, x.num, nc.high)
              /\ NumCheckAsClaimed(x.EDGE, x.num, nc.high)
              /\ x.collate = x.EDGE
        /\ (/\ nc.a.num # nc.b.num
            /\ nc.a.collate.err = "none"
            /\ nc.b.collate.err = "none")
              => /\ nc.a.collate.numstr # nc.b.collate.numstr
                 /\ nc.a.EDGE.numstr # nc.b.EDGE.numstr

\* numCheck(100, 0) = '100' and numCheck(1000, 0) = '1000' in both copies
C22_Witness ==
    /\ nc.state = "two"
    /\ nc.high = 0
    /\ nc.a.num = 100 /\ nc.a.EDGE.numstr = <<1, 0, 0>>
    /\ nc.b.num = 1000 /\ nc.b.collate.numstr = <<1, 0, 0, 0>>

\* the first name of the sequence base, 001, 002, ... that is not in d
RECURSIVE SkipPresent(_, _)
SkipPresent(n, d) ==
    IF n \in (1..d.upto) \cup d.extra THEN SkipPresent(n + 1, d) ELSE n

FirstAbsent(d, tag) ==
    IF ~d.base THEN PickleName(tag, << >>)
    ELSE LET k == SkipPresent(d.upto + 1, d)
         IN  PickleName(tag, IF k > NumMax THEN Pad(k, 5)
                             ELSE numCheckEDGE(k, 0))

\* C23: SPPickle never writes to a name that is in the directory: it writes
\* to name_obs.pkl (name_red.pkl) when that is absent and otherwise to the
\* first absent name of name_obs_001.pkl, name_obs_002.pkl, ...; the loop
\* ends after finitely many passes (here: at most NumMax + 1), with a write.
C23_PickleNeverOverwrites ==
    pk.state # "idle" =>
        /\ pk.count <= NumMax + 1
        /\ pk.state # "raised"
        /\ pk.state = "written" =>
              /\ ~pk.over
              /\ pk.outname = FirstAbsent(pk.dir, pk.tag)

\* what holds of C23: a name that is in the list filelist returned is never
\* written to, and the loop makes at most NumMax + 1 passes
PickleSafeForListedNames ==
    pk.state # "idle" =>
        /\ pk.count <= NumMax + 1
        /\ pk.state = "written" =>
              ~InFilelist(pk.dir, pk.hidden, pk.outname)

\* with a name that does not start with '.' and fewer than NumMax numbered
\* pickles, the write goes to the first absent name
PickleFirstAbsent ==
    (pk.state = "written" /\ ~pk.hidden)
        => ~pk.over /\ pk.outname = FirstAbsent(pk.dir, pk.tag)

\* the keys TTS_Model.dataInit may load given the tags of the header h
KeysOfHeader(h) ==
    {"wl"} \cup {k \in DOMAIN TtsKeys : TtsKeys[k] \in DOMAIN h}

\* C24: for every record disk-mode collate can write, TTS_Model.dataInit
\* and PTD_Model.dataInit load an optional component only when its axis tag
\* is in the header, and never fail because an optional axis tag is absent.
C24_OptionalAxesTolerated ==
    DiskRecord =>
        /\ tts.state # "raised"
        /\ tts.state = "loaded" =>
              /\ DOMAIN tts.data = KeysOfHeader(dest.header)
              /\ (tts.extcorr # << >>) <=> ("EXTAXIS" \in DOMAIN dest.header)
        /\ ptd.state = "raised" =>
              ptd.err \notin {"KeyError:1401", "KeyError:1429"}

\* the half of C24 that holds: TTS_Model.dataInit loads every record of
\* disk-mode collate, with the components whose tags are in the header
TtsToleratesAbsentAxes ==
    DiskRecord =>
        /\ tts.state # "raised"
        /\ tts.state = "loaded" =>
              /\ DOMAIN tts.data = KeysOfHeader(dest.header)
              /\ (tts.extcorr # << >>) <=> ("EXTAXIS" \in DOMAIN dest.header)

\* the axis tags of a disk record, in the order of the blocks of collate
TagOrder == <<"WLAXIS", "PHOTAXIS", "WALLAXIS", "ANGAXIS", "SCATAXIS", "EXTAXIS">>

TagRank(t) == CHOOSE i \in 1..Len(TagOrder) : TagOrder[i] = t

\* C25: in every record written by disk-mode collate the axis indices are
\* exactly 0..k-1, without gap or repeat, WLAXIS is 0, and the indices of
\* the axes present increase in the order photosphere, wall, disk/angle,
\* scattered light, extinction.
C25_AxisIndices ==
    DiskRecord =>
        LET m == AxisMap(dest.header)
            k == Cardinality(DOMAIN m)
        IN  /\ DOMAIN m \subseteq {TagOrder[i] : i \in 1..Len(TagOrder)}
            /\ {m[t] : t \in DOMAIN m} = 0..(k - 1)
            /\ "WLAXIS" \in DOMAIN m /\ m["WLAXIS"] = 0
            /\ \A t, u \in DOMAIN m : TagRank(t) < TagRank(u) => m[t] < m[u]

\* C25 witness: photosphere missing and scattered light disabled; the wall,
\* the angle file and the extinction column take the indices 1, 2, 3
C25_Witness ==
    /\ DiskRecord
    /\ found["phot"] = "missing" /\ arg["scatt"] = 1
    /\ AxisMap(dest.header)
          = ("WLAXIS" :> 0) @@ ("WALLAXIS" :> 1) @@ ("ANGAXIS" :> 2)
                @@ ("EXTAXIS" :> 3)

\* the IOError collate raises for a keyword that is neither 0 nor 1
KeywordErrors ==
    {"IOError:483", "IOError:331", "IOError:362", "IOError:393", "IOError:424",
     "IOError:437"}

\* the call was made with optthin, or a skip flag read so far, outside {0, 1}
InvalidKeyword ==
    \/ pc # "call" /\ optthin \notin {"0", "1"}
    \/ \E c \in Comp \cup {"extinct"} : arg[c] \notin {-1, 0, 1}

\* C26: collate raises IOError and writes no record whenever optthin or one
\* of nophot, nowall, noangle, noscatt, noextinct is neither 0 nor 1.
C26_InvalidKeywordRaises ==
    (pc = "done" /\ InvalidKeyword) =>
        /\ ~Written
        /\ result = "raised"
        /\ err \in KeywordErrors

\* the part of C26 that holds: a skip flag that is neither 0 nor 1 ends the
\* disk branch with the IOError of its block and without a record, and so
\* does an optthin that is falsy and neither 0 nor 'False'
InvalidSkipFlagRaises ==
    /\ \A c \in Comp \cup {"extinct"} :
          arg[c] \notin {-1, 0, 1} =>
              /\ result = "raised"
              /\ err = (IF c = "extinct" THEN "IOError:437" ELSE FlagError(c))
              /\ dest \in {NoFile, OldFile}
    /\ (pc # "call" /\ optthin = "None") =>
          result = "raised" /\ err = "IOError:483" /\ dest \in {NoFile, OldFile}

\* a component asked for (skip flag 0) was missing or empty
SomeAskedForNotThere ==
    \E c \in Comp : arg[c] = 0 /\ found[c] \in {"missing", "empty"}

\* extinction was asked for while the disk/angle component was not loaded
ExtinctWithoutAngle == arg["extinct"] = 0 /\ AngleNotLoaded

\* C27: a record written by disk-mode collate has the FAILED tag if and
\* only if a component whose skip flag was 0 was missing or empty, or
\* extinction was asked for while the angle component was not loaded; a
\* component the caller disabled does not set FAILED by itself.
C27_FailedIff ==
    DiskRecord =>
        ("FAILED" \in DOMAIN dest.header)
            <=> (SomeAskedForNotThere \/ ExtinctWithoutAngle)

\* C27 witness: the caller disabled the angle and scattered-light files and
\* extinction, the photosphere and wall files were loaded: no FAILED tag
C27_Witness ==
    /\ DiskRecord
    /\ arg["angle"] = 1 /\ arg["scatt"] = 1 /\ arg["extinct"] = 1
    /\ found["phot"] = "found" /\ found["wall"] = "found"
    /\ "FAILED" \notin DOMAIN dest.header

\* C28: every record written by disk-mode collate has exactly one of the
\* tags EXTAXIS and NOEXT, EXTAXIS exactly when the extinction correction
\* was applied (the correction stage ran with noextinct == 0), so
\* TTS_Model.dataInit takes every such record for the new format and never
\* reads it by columns.
C28_ExtOrNoExt ==
    DiskRecord =>
        LET h == dest.header
        IN  /\ ("EXTAXIS" \in DOMAIN h) # ("NOEXT" \in DOMAIN h)
            /\ ("EXTAXIS" \in DOMAIN h) <=> (noextinct = 0)
            /\ IsNew(h)
            /\ tts.state # "idle" => tts.state = "loaded" /\ tts.new = 1

\* C28 witness: extinction asked for without the angle file; the record has
\* NOEXT and no EXTAXIS and TTS_Model.dataInit loads it as new
C28_Witness ==
    /\ DiskRecord
    /\ arg["extinct"] = 0 /\ found["angle"] = "missing"
    /\ "NOEXT" \in DOMAIN dest.header /\ "EXTAXIS" \notin DOMAIN dest.header
    /\ tts.state = "loaded" /\ tts.new = 1
    /\ "iwall" \in DOMAIN tts.data

\* the stages whose step calls hdu.writeto
WriteStages == {"write", "o_write"}

\* C29: a call of collate writes at most one file, as its last step that
\* changes state: the file at the output path changes only in the step that
\* ends the call with the record written, and a call that raises or returns
\* early leaves the file (absent, or the earlier file) as it was.
C29_WriteIsLast ==
    [][/\ dest' # dest =>
             /\ pc \in WriteStages
             /\ pc' = "done"
             /\ result' = "written"
             /\ dest'.kind = "rec"
       /\ result' \in {"raised", "returned"} =>
             /\ dest' = dest
             /\ dest' \in {NoFile, OldFile}
       /\ pc = "done" => dest' = dest /\ result' = result]_vars

\* C29 witness: the call built the table and the header, then writeto
\* refused to replace the earlier file, which is still there
C29_Witness ==
    /\ result = "raised"
    /\ err = "IOError:writeto"
    /\ dataarr # << >>
    /\ "WLAXIS" \in DOMAIN hdu
    /\ dest = OldFile

\* the same over the directory of a batch: a step changes the directory
\* only by putting the record of one call at that call's output path, as
\* the step that ends the call; the input files stay as they were
DirectoryOnlyGainsRecords ==
    [][dir' # dir =>
          /\ batch.state = "idle"
             \/ \E r \in Runs :
                   /\ job[r].pc = "write" /\ job'[r].pc = "done"
                   /\ job'[r].err = "none"
                   /\ dir' \ dir = {RecordOf(r, job[r], batch.optthin)}
                   /\ dir \ dir' \subseteq AtOutPath(dir, r)
          /\ batch.state # "idle" =>
                {f \in dir' : f.ext = ""} = {f \in dir : f.ext = ""}]_vars

\* how often the scope is in the list ulim
TimesIn(list, scope) == Cardinality({i \in 1..Len(list) : list[i] = scope})

\* C30: after any sequence of add_photometry calls ulim holds each key of
\* photometry at most once, and holds a key exactly when the entry stored for
\* it was added with ulim=1; a replacement that was declined or abandoned
\* leaves photometry and ulim as they were.
C30_UlimMatchesEntries ==
    obs.state = "ready" =>
        /\ \A scope \in Scopes :
              /\ TimesIn(obs.ulim, scope) <= 1
              /\ TimesIn(obs.ulim, scope) >= 1
                    <=> /\ scope \in DOMAIN obs.photometry
                        /\ obs.photometry[scope].asked = 1
        /\ obs.last \in {"declined", "abandoned"} =>
              /\ obs.photometry = obs.before.photometry
              /\ obs.ulim = obs.before.ulim

\* the parts of C30 that hold: a key in ulim is a key of photometry, a
\* first addition with ulim=1 puts it there once, and a replacement that
\* was declined or abandoned changes nothing
UlimOfFirstAdditions ==
    obs.state = "ready" =>
        /\ \A scope \in Scopes :
              TimesIn(obs.ulim, scope) >= 1 => scope \in DOMAIN obs.photometry
        /\ obs.last = "added" =>
              \A scope \in Scopes :
                  (scope \in DOMAIN obs.photometry
                   /\ obs.photometry[scope].n = obs.calls)
                      => TimesIn(obs.ulim, scope) = obs.photometry[scope].asked
        /\ obs.last \in {"declined", "abandoned"} =>
              /\ obs.photometry = obs.before.photometry
              /\ obs.ulim = obs.before.ulim

====
